---- MODULE Spec2Model ----
(***************************************************************************)
(* A model of the generation-based log-structured engine of kvs            *)
(* (store/src/kv.rs) on top of the logformat writer (logformat/src/        *)
(* writer.rs) and reader.                                                  *)
(*                                                                         *)
(* Files are modelled at the level the code uses them:                     *)
(*   - a log file is a sequence of fixed-size slots (offsets are counted   *)
(*     in slots of SERIALIZED_ENTRY_SIZE bytes),                           *)
(*   - a data file is a sequence of bytes,                                 *)
(*   - the reader and the writer of a generation are clones of ONE file    *)
(*     handle (File::try_clone), so they share the handle's offset; each   *)
(*     has its own buffer (BufReader / BufWriter).                         *)
(* Every operation records the disk after each of its writes in a trace,   *)
(* so a crash can stop it after any of them.                               *)
(***************************************************************************)
EXTENDS Integers, Sequences, FiniteSets, TLC

(* ------------------------------ bounds --------------------------------- *)
\* set/remove calls that reach the writer in one behaviour
MaxWrites == 5
\* the same, in a behaviour that only writes
LongWrites == 8
\* number of times the store is opened in one behaviour
MaxOpens == 3
\* number of get calls in one behaviour
MaxGets == 1
\* zero slots found after the records of a log
MaxPad == 2

\* write_entry calls of a test of the log format
MaxEntries == 3

\* zero slots the entry buffer of a test starts with, at most
MaxPrealloc == 3
\* Slotted::push calls of a test of the data file
MaxPushes == 3
\* length of a value pushed into a Slotted, at most
MaxValueLen == 5
\* highest generation number the model lets current_gen reach
MaxGen == 2
\* connections made to the server in one behaviour
MaxConns == 3
\* connections that can wait in the listener's queue
MaxBacklog == 2
\* keys and values are byte strings (sequences of bytes)
Keys == {<<1>>, <<2>>}
\* COMPACT_THRESHOLD (4000 in the source), scaled
COMPACT_THRESHOLD == 2
\* capacity of BufReader/BufWriter over a log file, in slots
\* (8192 bytes / 64 bytes = 128 in the build), scaled
BUF_SLOTS == 2
\* capacity of BufReader/BufWriter over a data file, in bytes (8192), scaled
BUF_BYTES == 2

(* ------------------------------ helpers -------------------------------- *)
Max(a, b) == IF a >= b THEN a ELSE b

\* the values a behaviour writes: the engine never looks into a value, so
\* the n-th write carries a value no earlier write carried
ValOf(n) == <<3 + n>>

Vals == {ValOf(n) : n \in 0..(Max(MaxWrites, LongWrites) - 1)}

Gens == 0..MaxGen

\* get_log_path: <G>, <G>.data, <G>-temp, <G>-temp.data
LogF(g) == <<"log", g>>

DataF(g) == <<"data", g>>

TLogF(g) == <<"tlog", g>>

TDataF(g) == <<"tdata", g>>

Files == {"log", "data", "tlog", "tdata"} \X Gens

\* an all-zero slot: bincode decodes it as Option::None
ZeroSlot ==
  [tag |-> "None", key |-> [start |-> 0, len |-> 0],
   value |-> [start |-> 0, len |-> 0]]

\* mem::Entry
MemSet(k, v) == [tag |-> "Set", key |-> k, value |-> v]

MemRemove(k) == [tag |-> "Remove", key |-> k, value |-> <<>>]

\* results of get / set / remove
Ok(op, k) == [op |-> op, key |-> k, kind |-> "ok", val |-> <<>>]

NoneVal(k) == [op |-> "get", key |-> k, kind |-> "none", val |-> <<>>]

ErrRes(op, k, e) == [op |-> op, key |-> k, kind |-> e, val |-> <<>>]

EmptyDisk == [exists |-> {}, content |-> [f \in Files |-> <<>>]]

(* --------------------------- file primitives --------------------------- *)
\* pwrite of `bytes` at offset o (0-based); a gap past the end reads as zeros
WriteAt(seq, o, bytes, z) ==
  [i \in 1..Max(Len(seq), o + Len(bytes)) |->
     IF i > o /\ i <= o + Len(bytes) THEN bytes[i - o]
     ELSE IF i <= Len(seq) THEN seq[i] ELSE z]

\* a write reached the disk: remember the disk it leaves
Emit(st, d) == [st EXCEPT !.disk = d, !.trace = Append(st.trace, d)]

\* OpenOptions::new().read(true).write(true).create(true): no truncation
Create(st0, f) ==
  CHOOSE r \in
    { IF f \in st.disk.exists THEN st
      ELSE Emit(st, [st.disk EXCEPT !.exists = @ \cup {f},
                                    !.content[f] = <<>>])
      : st \in {st0} } : TRUE

\* write(2) through a file handle: at the handle's offset, which advances
RawWrite(st0, f, bytes) ==
  CHOOSE r \in
    { IF bytes = <<>> THEN st
      ELSE Emit([st EXCEPT !.off[f] = @ + Len(bytes)],
                [st.disk EXCEPT !.content[f] =
                   WriteAt(@, st.off[f], bytes,
                           IF (f[1] \in {"log", "tlog"}) THEN ZeroSlot ELSE 0)])
      : st \in {st0} } : TRUE

\* BufWriter::flush: the buffered bytes go out at the handle's offset
FlushBuf(st0, f) ==
  CHOOSE r \in
    { RawWrite([st EXCEPT !.wbuf[f] = <<>>], f, st.wbuf[f])
      : st \in {st0} } : TRUE

(* ------------------------------ LogWriter ------------------------------ *)
\* a flush that writes out the log file before the data file
WriterFlush_logfirst(st, lf, df) == FlushBuf(FlushBuf(st, lf), df)

\* LogWriter::flush: the data file first, then the log file
WriterFlush(st, lf, df) == FlushBuf(FlushBuf(st, df), lf)

\* BufWriter::write of s: buffered when it fits, written through when it
\* is as large as the buffer (the buffer is empty at both call sites)
BufWrite(st0, f, s, cap) ==
  CHOOSE r \in
    { IF Len(s) >= cap THEN RawWrite(st, f, s)
      ELSE [st EXCEPT !.wbuf[f] = @ \o s]
      : st \in {st0} } : TRUE

\* LogWriter::write_value for a String: stream_position() on the BufWriter
\* (a seek, which writes the buffer out) gives start, then the bytes are
\* handed to the BufWriter
WriteValue(st0, df, s) ==
  CHOOSE r \in
    { [st  |-> BufWrite(s1, df, s, BUF_BYTES),
       ref |-> [start |-> s1.off[df], len |-> Len(s)]]
      : s1 \in {FlushBuf(st0, df)} } : TRUE

\* LogWriter::write_file_entry: write_all of one padded slot into the
\* BufWriter (which first empties itself when the slot does not fit), then
\* entry_pos += 1; returns the old entry_pos.  No seek is made.
WriteFileEntry(st0, lf, rec) ==
  CHOOSE r \in
    { [st  |-> [BufWrite(s1, lf, <<rec>>, BUF_SLOTS)
                  EXCEPT !.pos[lf] = @ + 1],
       pos |-> s1.pos[lf]]
      : s1 \in {IF Len(st0.wbuf[lf]) + 1 > BUF_SLOTS THEN FlushBuf(st0, lf)
                ELSE st0} } : TRUE

\* LogWriter::write_entry
WriteEntry(st, lf, df, e) ==
  CHOOSE r \in UNION {
    { WriteFileEntry(v.st, lf,
                     IF e.tag = "Set"
                     THEN [tag |-> "Set", key |-> k.ref, value |-> v.ref]
                     ELSE [tag |-> "Remove", key |-> k.ref,
                           value |-> [start |-> 0, len |-> 0]])
      : v \in {IF e.tag = "Set" THEN WriteValue(k.st, df, e.value) ELSE k} }
    : k \in {WriteValue(st, df, e.key)} } : TRUE

\* write_entry can return an I/O error at this point: the call reaches a
\* write to a file there
CanFail(st, lf, df, e, at) ==
  IF at = "key" THEN (st.wbuf[df] # <<>> \/ Len((e.key)) >= BUF_BYTES)
  ELSE IF at = "value"
  THEN e.tag = "Set"
         /\ (WriteValue(st, df, e.key).st.wbuf[df] # <<>>
               \/ Len(e.value) >= BUF_BYTES)
  ELSE Len(st.wbuf[lf]) + 1 > BUF_SLOTS

\* LogWriter::write_entry returning Err from the point `at`: what was done
\* before that point stays done, `?` skips the rest, and write_file_entry
\* has not reached set_pos
WriteEntryFailing(st, lf, df, e, at) ==
  IF at = "key" THEN st
  ELSE IF at = "value" THEN WriteValue(st, df, e.key).st
  ELSE CHOOSE r \in
         { IF e.tag = "Set" THEN WriteValue(k.st, df, e.value).st ELSE k.st
           : k \in {WriteValue(st, df, e.key)} } : TRUE

(* ------------------------------ LogReader ------------------------------ *)
\* file::MAX_ENTRIES_PER_FILE (0x1000 in the source, 96 above
\* COMPACT_THRESHOLD), scaled
MAX_ENTRIES_PER_FILE == 6

\* LogReader::lookup_value for a String: seek the data reader to start
\* (the BufReader drops its buffer), read_exact len bytes.  The BufReader
\* fills its whole buffer from the handle, so the handle's offset ends
\* BUF_BYTES (or len, when larger) past start, or at the end of the file.
LookupValue(st0, df, ref) ==
  CHOOSE r \in
    { LET c    == st.disk.content[df]
          want == IF ref.len >= BUF_BYTES THEN ref.len ELSE BUF_BYTES
          ok   == ref.start + ref.len <= Len(c)
      IN  [st  |-> [st EXCEPT !.off[df] =
                       Max(ref.start, IF Len(c) <= ref.start + want
                                      THEN Len(c) ELSE ref.start + want)],
           ok  |-> ok,
           val |-> IF ok THEN SubSeq(c, ref.start + 1, ref.start + ref.len)
                   ELSE <<>>]
      : st \in {st0} } : TRUE

\* LogReader::lookup_entry
LookupEntry(st, df, fe) ==
  CHOOSE r \in UNION {
    { [st    |-> v.st,
       ok    |-> k.ok /\ v.ok,
       entry |-> IF fe.tag = "Set" THEN MemSet(k.val, v.val)
                 ELSE MemRemove(k.val)]
      : v \in {IF k.ok /\ fe.tag = "Set"
               THEN LookupValue(k.st, df, fe.value) ELSE k} }
    : k \in {LookupValue(st, df, fe.key)} } : TRUE

\* LogReader::seek(p) followed by the read of one slot: the BufReader drops
\* its buffer, seeks the handle to p and fills its buffer from there
SeekRead(st, lf, p) ==
  [st EXCEPT !.off[lf] =
     Max(p, IF Len(st.disk.content[lf]) <= p + BUF_SLOTS
            THEN Len(st.disk.content[lf]) ELSE p + BUF_SLOTS)]

\* LogReader::entry_at(p): seek(p), then read_entry()
EntryAt(st0, lf, df, p) ==
  CHOOSE r \in UNION {
    { [st |-> x.st, ok |-> x.ok, some |-> x.ok /\ fe.tag # "None",
       entry |-> x.entry]
      : x \in {IF fe.tag = "None"
               THEN [st |-> SeekRead(st0, lf, p), ok |-> TRUE,
                     entry |-> MemRemove(<<>>)]
               ELSE LookupEntry(SeekRead(st0, lf, p), df, fe)} }
    : fe \in {IF p < Len(st0.disk.content[lf])
              THEN st0.disk.content[lf][p + 1] ELSE ZeroSlot} } : TRUE

\* number of slots a scan from slot 0 reads before it meets None
RECURSIVE Present(_, _)
Present(c, i) ==
  IF i < Len(c) /\ c[i + 1].tag # "None" THEN Present(c, i + 1) ELSE i

\* where the handle's offset is after seek(0) and a scan that stopped at
\* slot n: the BufReader has read whole buffers up to the one holding slot n
ScanEnd(c, n) ==
  IF n < Len(c)
  THEN IF Len(c) <= ((n \div BUF_SLOTS) + 1) * BUF_SLOTS
       THEN Len(c) ELSE ((n \div BUF_SLOTS) + 1) * BUF_SLOTS
  ELSE Len(c)

(* ------------------------------- KvStore ------------------------------- *)
\* the keys the index can hold: the byte strings over the bytes in use
KeySpace ==
  UNION {[1..Len(s) ->
            {0} \cup UNION {{t[i] : i \in 1..Len(t)} : t \in Keys \cup Vals}]
         : s \in Keys \cup Vals}

\* the engine and the directory right after the process has started; ok
\* and err say whether the call being made has failed and with which error
Fresh(d) ==
  [disk  |-> d, trace |-> <<>>,
   off   |-> [f \in Files |-> 0],
   wbuf  |-> [f \in Files |-> <<>>],
   pos   |-> [f \in Files |-> 0],
   index |-> [k \in KeySpace |->
               [present |-> FALSE, gen |-> 0, location |-> 0]],
   cur   |-> 0, ok |-> TRUE, err |-> "err", ret |-> 0]

\* a set_pos that leaves entry_pos as LogWriter::new made it
set_pos_kept(st, lf, p) == st

\* LogWriter::set_pos
set_pos(st, lf, p) == [st EXCEPT !.pos[lf] = p]

\* KvStore::index_entry
index_entry(st, e, g, p) ==
  [st EXCEPT !.index[e.key] =
     IF e.tag = "Set" THEN [present |-> TRUE, gen |-> g, location |-> p]
     ELSE [present |-> FALSE, gen |-> 0, location |-> 0]]

\* handles that all start anew when one pair of files is opened
Opened_all(st, lf, df) ==
  [st EXCEPT !.off = [f \in Files |-> 0],
             !.wbuf = [f \in Files |-> <<>>],
             !.pos = [f \in Files |-> 0]]

\* the handles, the BufWriters and the LogWriter over the pair of files
\* lf, df as they are right after they were opened: offsets 0 (LogWriter::
\* new seeks to 0), nothing buffered, entry_pos 0
Opened(st, lf, df) ==
  [st EXCEPT !.off[lf] = 0, !.off[df] = 0,
             !.wbuf[lf] = <<>>, !.wbuf[df] = <<>>, !.pos[lf] = 0]

\* KvStore::open_log_file: opens (creating when missing, never truncating)
\* <G> and <G>.data, and installs a new reader and a new writer over clones
\* of the two new handles.  A replaced writer is flushed through its own
\* (old) handles; its buffers are empty at both call sites that replace one.
open_log_file(st, g) ==
  Opened(Create(Create(st, LogF(g)), DataF(g)), LogF(g), DataF(g))

\* the loop of load: read_entry() until None, resolving keys and values;
\* acc.st is the engine, acc.entries what was read so far
RECURSIVE ReadEntries(_, _, _, _, _)
ReadEntries(acc0, df, c, i, n) ==
  CHOOSE r \in
    { IF i >= n \/ ~acc.ok THEN acc
      ELSE ReadEntries(
             CHOOSE a \in
               { [st |-> x.st, ok |-> x.ok,
                  entries |-> IF x.ok THEN Append(acc.entries, x.entry)
                              ELSE acc.entries]
                 : x \in {LookupEntry(acc.st, df, c[i + 1])} } : TRUE,
             df, c, i + 1, n)
      : acc \in {acc0} } : TRUE

RECURSIVE IndexAll(_, _, _, _)
IndexAll(st0, entries, g, i) ==
  CHOOSE r \in
    { IF i > Len(entries) THEN st
      ELSE IndexAll(index_entry(st, entries[i], g, i - 1), entries, g, i + 1)
      : st \in {st0} } : TRUE

\* KvStore::load: flush, seek(0), replay every record into the index, then
\* writer.set_pos(number of records read)
load(st, g) ==
  CHOOSE r \in UNION UNION {
    { { IF ~x.ok THEN [x.st EXCEPT !.ok = FALSE]
        ELSE [set_pos(IndexAll(x.st, x.entries, g, 1), LogF(g), n)
                EXCEPT !.ret = n]
        : x \in {ReadEntries(
                   [st |-> [s0 EXCEPT !.off[LogF(g)] =
                              ScanEnd(s0.disk.content[LogF(g)], n)],
                    ok |-> TRUE, entries |-> <<>>],
                   DataF(g), s0.disk.content[LogF(g)], 0, n)} }
      : n \in {Present(s0.disk.content[LogF(g)], 0)} }
    : s0 \in {WriterFlush(st, LogF(g), DataF(g))} } : TRUE

\* the generations open finds: the names that parse as a number
Generations(d) == {g \in Gens : LogF(g) \in d.exists}

RECURSIVE OpenLoop(_, _)
OpenLoop(st0, g) ==
  CHOOSE r \in
    { IF g > st.cur \/ ~st.ok THEN st
      ELSE OpenLoop(load(open_log_file(st, g), g), g + 1)
      : st \in {st0} } : TRUE

\* KvStore::open
open(d) ==
  OpenLoop([Fresh(d) EXCEPT
              !.cur = IF Generations(d) = {} THEN 0
                      ELSE CHOOSE x \in Generations(d) :
                             \A y \in Generations(d) : y <= x], 0)

\* KvStore::open_temp_writer: <G>-temp and <G>-temp.data are opened with
\* create(true) and no truncate
open_temp_writer(st, g) ==
  Opened(Create(Create(st, TLogF(g)), TDataF(g)), TLogF(g), TDataF(g))

\* a rename that adds the file to the end of the one it should replace
Rename_append(st0, a, b) ==
  CHOOSE r \in
    { Emit(st, [exists  |-> (st.disk.exists \ {a}) \cup {b},
                content |-> [st.disk.content
                               EXCEPT ![b] = @ \o st.disk.content[a],
                                      ![a] = <<>>]])
      : st \in {st0} } : TRUE

\* std::fs::rename(a, b)
Rename(st0, a, b) ==
  CHOOSE r \in
    { Emit(st, [exists  |-> (st.disk.exists \ {a}) \cup {b},
                content |-> [st.disk.content
                               EXCEPT ![b] = st.disk.content[a],
                                      ![a] = <<>>]])
      : st \in {st0} } : TRUE

\* one round of the loop of compact: the record fe read at position i of
\* <G> is rewritten through the temp writer when it is the live one
CompactStep(st0, g, fe, i) ==
  CHOOSE r \in UNION UNION {
    { { IF ~k.ok \/ ~v.ok THEN [v.st EXCEPT !.ok = FALSE]
        ELSE IF keep
        THEN WriteEntry(v.st, TLogF(g), TDataF(g),
                        IF fe.tag = "Set" THEN MemSet(k.val, v.val)
                        ELSE MemRemove(k.val)).st
        ELSE v.st
        : v \in {IF k.ok /\ keep /\ fe.tag = "Set"
                 THEN LookupValue(k.st, DataF(g), fe.value) ELSE k} }
      : keep \in {IF ~k.ok THEN FALSE
                  ELSE IF fe.tag = "Set"
                  THEN /\ k.st.index[k.val].present
                       /\ k.st.index[k.val].gen = g
                       /\ k.st.index[k.val].location = i
                  ELSE ~k.st.index[k.val].present} }
    : k \in {LookupValue(st0, DataF(g), fe.key)} } : TRUE

\* the loop of compact over the n records c of <G>
RECURSIVE CompactLoop(_, _, _, _, _)
CompactLoop(st0, g, c, i, n) ==
  CHOOSE r \in
    { IF i >= n \/ ~st.ok THEN st
      ELSE CompactLoop(CompactStep(st, g, c[i + 1], i), g, c, i + 1, n)
      : st \in {st0} } : TRUE

\* KvStore::compact: returns reader_pos, the number of records read
compact(st, g) ==
  CHOOSE r \in UNION UNION {
    { { IF ~s2.ok
        THEN \* `?` returns; the temp writer is dropped, its BufWriters
             \* write their buffers out (entry_writer, then data_writer)
             Opened(FlushBuf(FlushBuf(s2, TLogF(g)), TDataF(g)),
                    TLogF(g), TDataF(g))
        ELSE [Opened(
                open_log_file(
                  Rename(Rename(WriterFlush(s2, TLogF(g), TDataF(g)),
                                TLogF(g), LogF(g)),
                         TDataF(g), DataF(g)),
                  g),
                TLogF(g), TDataF(g))
                EXCEPT !.ret = n]
        : s2 \in {CompactLoop(
                    [s1 EXCEPT !.off[LogF(g)] =
                       ScanEnd(s1.disk.content[LogF(g)], n)],
                    g, s1.disk.content[LogF(g)], 0, n)} }
      : n \in {Present(s1.disk.content[LogF(g)], 0)} }
    : s1 \in {WriterFlush(open_temp_writer(st, g), LogF(g), DataF(g))} }
    : TRUE

RECURSIVE CompactGens(_, _)
CompactGens(st0, g) ==
  CHOOSE r \in
    { IF g > st.cur \/ ~st.ok THEN st
      ELSE CompactGens(compact(st, g), g + 1)
      : st \in {st0} } : TRUE

\* a compact_all that moves on to the next generation without opening it
compact_all_unopened(st) ==
  CHOOSE r \in
    { IF s1.ok /\ s1.ret > COMPACT_THRESHOLD
      THEN [s1 EXCEPT !.cur = @ + 1]
      ELSE s1
      : s1 \in {CompactGens([st EXCEPT !.ret = 0], 0)} } : TRUE

\* KvStore::compact_all
compact_all(st) ==
  CHOOSE r \in
    { IF s1.ok /\ s1.ret > COMPACT_THRESHOLD
      THEN IF s1.cur + 1 \in Gens
           THEN open_log_file([s1 EXCEPT !.cur = @ + 1], s1.cur + 1)
           ELSE [s1 EXCEPT !.cur = @ + 1]
      ELSE s1
      : s1 \in {CompactGens([st EXCEPT !.ret = 0], 0)} } : TRUE

\* KvStore::compact_all when the open_log_file of the next generation fails
\* at its first OpenOptions::open: current_gen has been incremented, `?`
\* returns the error, and no file, reader or writer of that generation exists
compact_all_failing(st) ==
  CHOOSE r \in
    { IF s1.ok /\ s1.ret > COMPACT_THRESHOLD
      THEN [s1 EXCEPT !.cur = @ + 1, !.ok = FALSE, !.err = "IoError"]
      ELSE s1
      : s1 \in {CompactGens([st EXCEPT !.ret = 0], 0)} } : TRUE

\* the first half of KvStore::push: write_entry, then index_entry at the
\* position write_entry returned (kept in ret)
push_entry(st, g, e) ==
  CHOOSE r \in
    { [index_entry(w.st, e, g, w.pos) EXCEPT !.ret = w.pos]
      : w \in {WriteEntry(st, LogF(g), DataF(g), e)} } : TRUE

\* a push that indexes the entry although write_entry failed
push_failing_indexed(st, g, e, at) ==
  [index_entry(WriteEntryFailing(st, LogF(g), DataF(g), e, at), e, g,
               st.pos[LogF(g)])
     EXCEPT !.ok = FALSE, !.err = "IoError"]

\* KvStore::push when write_entry returns Err: `?` returns it before
\* index_entry and before the test of the threshold
push_failing(st, g, e, at) ==
  [WriteEntryFailing(st, LogF(g), DataF(g), e, at)
     EXCEPT !.ok = FALSE, !.err = "IoError"]

\* a push that never compacts
push_never(st, g, e) == push_entry(st, g, e)

\* KvStore::push
push(st, g, e) ==
  CHOOSE r \in
    { IF s1.ret > COMPACT_THRESHOLD THEN compact_all(s1) ELSE s1
      : s1 \in {push_entry(st, g, e)} } : TRUE

\* a set that appends to generation 0
set_oldest(st0, k, v) == push(st0, 0, MemSet(k, v))

\* KvStore::set
set(st0, k, v) ==
  CHOOSE r \in {push(st, st.cur, MemSet(k, v)) : st \in {st0}} : TRUE

\* KvStore::get: the state it leaves and the result it returns
get(st0, k) ==
  CHOOSE r \in UNION {
    { IF ~s0.index[k].present THEN [st |-> s0, res |-> NoneVal(k)]
      ELSE CHOOSE y \in
             { [st  |-> x.st,
                res |-> IF ~x.ok THEN ErrRes("get", k, "err")
                        ELSE IF x.some /\ x.entry.tag = "Set"
                        THEN [op |-> "get", key |-> k, kind |-> "some",
                              val |-> x.entry.value]
                        ELSE NoneVal(k)]
               : x \in {EntryAt(s0, LogF(s0.index[k].gen),
                                DataF(s0.index[k].gen),
                                s0.index[k].location)} } : TRUE
      : s0 \in {WriterFlush(st, LogF(st.cur), DataF(st.cur))} }
    : st \in {st0} } : TRUE

\* KvStore::remove without its test of the index
remove_unchecked(st0, k) ==
  CHOOSE r \in {push(st, st.cur, MemRemove(k)) : st \in {st0}} : TRUE

\* KvStore::remove
remove(st0, k) ==
  CHOOSE r \in
    { IF ~st.index[k].present
      THEN [st EXCEPT !.ok = FALSE, !.err = "NonExistentKey"]
      ELSE push(st, st.cur, MemRemove(k))
      : st \in {st0} } : TRUE

\* a Drop that writes nothing of what the writer holds
DropWriter_lost(st, g, mode) == st

\* one writer in Drop: writer.flush() (an error is only logged), then the
\* LogWriter itself is dropped and its two BufWriters try to write what
\* they still hold (entry_writer first), ignoring errors
DropWriter(st, g, mode) ==
  IF mode = "none" THEN WriterFlush(st, LogF(g), DataF(g))
  ELSE IF mode = "data" THEN FlushBuf(st, LogF(g))
  ELSE FlushBuf(st, DataF(g))

RECURSIVE drop(_, _, _)
RECURSIVE drop_stops(_, _, _)

\* a Drop that gives up at the first writer whose flush fails
drop_stops(st0, fail, g) ==
  CHOOSE r \in
    { IF g > st.cur THEN st
      ELSE IF fail[g] # "none" THEN DropWriter(st, g, fail[g])
      ELSE drop_stops(DropWriter(st, g, fail[g]), fail, g + 1)
      : st \in {st0} } : TRUE

\* impl Drop for KvStore: every writer in the map is visited
drop(st0, fail, g) ==
  CHOOSE r \in
    { IF g > st.cur THEN st
      ELSE drop(DropWriter(st, g, fail[g]), fail, g + 1)
      : st \in {st0} } : TRUE

(* --------------------------- logformat: Slotted ------------------------ *)
\* The data file of a page (logformat/src/slotted.rs): a header with one
\* offset and one length per value, both u16, and the heap of the bytes.

\* the number of values of a u16 (65,536 in the source), scaled
U16Range == 4

\* Slotted::new
Slotted_new == [offsets |-> <<>>, lens |-> <<>>, bin |-> <<>>]

\* Slotted::push: the offset is the length of the heap and the length is
\* the length of the value, both cast with `as u16`; it returns the index
slotted_push(s, bytes) ==
  [s |-> [offsets |-> Append(s.offsets, Len(s.bin) % U16Range),
          lens    |-> Append(s.lens, Len(bytes) % U16Range),
          bin     |-> s.bin \o bytes],
   ret |-> Len(s.offsets)]

\* Slotted::get: the slice of the heap the header names, None when the
\* index is not one of the header
slotted_get(s, i) ==
  IF i < Len(s.offsets)
  THEN [some  |-> TRUE,
        bytes |-> SubSeq(s.bin, s.offsets[i + 1] + 1,
                         s.offsets[i + 1] + s.lens[i + 1])]
  ELSE [some |-> FALSE, bytes |-> <<>>]

(* ----------------------- server: page-based KvStore -------------------- *)
\* The server binary (server/src/bin/server.rs) runs the KvStore of
\* server/src/kv.rs: a table in memory, ordered by the hash of the key, which
\* is written out as a page (hashes and value indexes) with a slotted data
\* file; the list of page headers is the index file.

\* keys and values of the requests
SrvKeys == {"a", "b", "c"}
\* InMemoryKey::new: the 64-bit hash of the key; "b" and "c" stand for two
\* strings with the same hash
KeyHash(k) == IF k = "a" THEN 1 ELSE 2

\* Option<String>
NoneOpt == [some |-> FALSE, v |-> ""]
OkOpt(o) == IF o.some THEN [kind |-> "some", v |-> o.v]
            ELSE [kind |-> "none", v |-> ""]
KeyNotFound == [kind |-> "KeyNotFound", v |-> ""]
\* the hashes of in_memory in the order the BTreeMap iterates them
RECURSIVE HashSeq(_)
HashSeq(S) ==
  IF S = {} THEN <<>>
  ELSE LET m == CHOOSE x \in S : \A y \in S : x <= y
       IN <<m>> \o HashSeq(S \ {m})

InMem(e) == {h \in {KeyHash(k) : k \in SrvKeys} : e.mem[h].in}

\* the Slotted write_page fills: data.push(s.as_bytes()) for every entry
\* with a value, in the order of the table; a value is one byte here
RECURSIVE SlottedOf(_, _, _)
SlottedOf(mem, hs, data) ==
  IF hs = <<>> THEN data
  ELSE SlottedOf(mem, Tail(hs),
                 IF mem[Head(hs)].val.some
                 THEN slotted_push(data, <<mem[Head(hs)].val.v>>).s
                 ELSE data)

\* PageBody: for each entry its key hash and value_index (-1 for a removal)
RECURSIVE BodyOf(_, _, _)
BodyOf(mem, hs, n) ==
  IF hs = <<>> THEN <<>>
  ELSE IF mem[Head(hs)].val.some
       THEN <<[hash |-> Head(hs), value_index |-> n]>>
            \o BodyOf(mem, Tail(hs), n + 1)
       ELSE <<[hash |-> Head(hs), value_index |-> -1]>>
            \o BodyOf(mem, Tail(hs), n)

\* KvStore::write_page: the page and its data file are created on disk and
\* the header is pushed on the index in memory
write_page(e) ==
  LET hs == HashSeq(InMem(e))
      header == [uuid  |-> Len(e.disk.pages) + 1,
                 min_key_hash |-> hs[1],
                 max_key_hash |-> hs[Len(hs)],
                 count |-> Len(hs)]
  IN [e EXCEPT !.index = Append(@, header),
               !.disk.pages = Append(@, [body |-> BodyOf(e.mem, hs, 0),
                                         data |-> SlottedOf(e.mem, hs, Slotted_new)])]

\* KvStore::write_index
write_index(e) ==
  [e EXCEPT !.disk.index = [exists |-> TRUE, headers |-> e.index]]

\* KvStore::save
save(e) == IF InMem(e) # {} THEN write_index(write_page(e)) ELSE e

\* COMMANDS_PER_PAGE (1600 in the source), scaled
COMMANDS_PER_PAGE == 2

EmptyTable ==
  [h \in {KeyHash(k) : k \in SrvKeys} |-> [in |-> FALSE, val |-> NoneOpt]]

\* KvStore::push of the server's store
kv_push(e0, k, o) ==
  CHOOSE r \in UNION {
    { save(e2)
      : e2 \in { IF Cardinality(InMem(e1)) >= COMMANDS_PER_PAGE
                 THEN [write_page(e1) EXCEPT !.mem = EmptyTable]
                 ELSE e1 } }
    : e1 \in {[e0 EXCEPT !.mem[KeyHash(k)] = [in |-> TRUE, val |-> o]]} } : TRUE

\* the first entry of a page body with the hash h (0 when there is none)
FirstWith(body, h) ==
  IF \E i \in 1..Len(body) : body[i].hash = h
  THEN CHOOSE i \in 1..Len(body) :
         body[i].hash = h /\ \A j \in 1..(i - 1) : body[j].hash # h
  ELSE 0

\* KvStore::get, the search of the pages from the newest (i counts down)
RECURSIVE ScanPages(_, _, _, _)
ScanPages(e, h, i, io) ==
  IF i = 0 THEN OkOpt(NoneOpt)
  ELSE LET header == e.index[i]
           page   == e.disk.pages[header.uuid]
           n      == FirstWith(page.body, h)
       IN IF ~(header.min_key_hash <= h /\ h <= header.max_key_hash)
          THEN ScanPages(e, h, i - 1, io)
          ELSE IF io = "page" THEN [kind |-> "Message", v |-> "IoError"]
          ELSE IF n = 0 THEN ScanPages(e, h, i - 1, io)
          ELSE IF page.body[n].value_index < 0 THEN OkOpt(NoneOpt)
          ELSE IF io = "data" THEN [kind |-> "Message", v |-> "IoError"]
          ELSE OkOpt([some |-> TRUE,
                      v |-> slotted_get(page.data,
                                        page.body[n].value_index).bytes[1]])

\* KvStore::get of the server's store
kv_get(e, k, io) ==
  IF e.mem[KeyHash(k)].in THEN OkOpt(e.mem[KeyHash(k)].val)
  ELSE ScanPages(e, KeyHash(k), Len(e.index), io)

\* KvStore::set of the server's store
kv_set(e, k, v) ==
  [e |-> kv_push(e, k, [some |-> TRUE, v |-> v]), out |-> [kind |-> "unit", v |-> ""]]

\* KvStore::remove of the server's store
kv_remove(e, k, io) ==
  IF kv_get(e, k, io).kind = "some"
  THEN [e |-> kv_push(e, k, NoneOpt), out |-> [kind |-> "unit", v |-> ""]]
  ELSE [e |-> e, out |-> KeyNotFound]

\* KvStore::open_with_logger: read_index takes the headers of the index
\* file, or none when there is no such file
open_with_logger(d) ==
  [mem |-> EmptyTable,
   index |-> IF d.index.exists THEN d.index.headers ELSE <<>>,
   disk |-> d]

(* --------------------------- server: main loop ------------------------- *)
Requests ==
  {[tag |-> "Get", key |-> k, value |-> NoneOpt] : k \in SrvKeys}
    \cup {[tag |-> "Set", key |-> k, value |-> NoneOpt] : k \in SrvKeys}
    \cup {[tag |-> "Set", key |-> k, value |-> [some |-> TRUE, v |-> v]]
             : k \in SrvKeys, v \in {"x", "y"}}
    \cup {[tag |-> "Bad", key |-> "", value |-> NoneOpt]}

\* CommandResponse; the text of a Message is the sequence of its pieces
Message(text) == [tag |-> "Message", text |-> text]
\* impl Display for Error: KeyNotFound has its own text, every other error
\* prints as its Debug form, the variant around its payload
Display(err) ==
  IF err.kind = "KeyNotFound" THEN <<"Key not found">>
  ELSE <<err.kind, "(", err.v, ")">>

\* main: the engine call a request selects
Apply(e, req, io) ==
  IF req.tag = "Get" THEN [e |-> e, out |-> kv_get(e, req.key, io)]
  ELSE IF req.value.some THEN kv_set(e, req.key, req.value.v)
  ELSE kv_remove(e, req.key, io)

\* a mapping that answers every engine error with the KeyNotFound variant
Respond_sentinel(req, out) ==
  IF out.kind = "unit" THEN Message(<<>>)
  ELSE IF out.kind = "some" THEN Message(<<out.v>>)
  ELSE IF out.kind = "none" THEN Message(<<"Key not found">>)
  ELSE [tag |-> "KeyNotFound", text |-> <<>>]

\* main: the response made from what the engine returned
Respond(req, out) ==
  IF out.kind = "unit" THEN Message(<<>>)
  ELSE IF out.kind = "some" THEN Message(<<out.v>>)
  ELSE IF out.kind = "none" THEN Message(<<"Key not found">>)
  ELSE IF out.kind = "KeyNotFound" THEN [tag |-> "KeyNotFound", text |-> <<>>]
  ELSE Message(<<"Error: ">> \o Display(out))

(* ----------- logformat: LogWriter and LogReader over cursors ----------- *)
\* The writer and the reader of logformat over two in-memory buffers
\* (std::io::Cursor over a Vec<u8>, as in the tests of the crate): here the
\* log is a sequence of bytes, so that the encoding, the padding and the
\* byte positions of the reader are what the code computes.

\* file::SERIALIZED_ENTRY_SIZE (64 in the source, where the longest encoding
\* takes 45 bytes), scaled: the longest encoding takes 8 bytes here
SERIALIZED_ENTRY_SIZE == 10

\* mem::Value
StrVal(s) == [t |-> "String", s |-> s, i |-> 0]

IntVal(i) == [t |-> "Integer", s |-> <<>>, i |-> i]

FmtEntries ==
  {[tag |-> "Set", key |-> k, value |-> v]
     : k \in {StrVal(<<7>>), IntVal(42)}, v \in {StrVal(<<8, 9>>), IntVal(5)}}
    \cup {[tag |-> "Remove", key |-> k, value |-> IntVal(0)]
             : k \in {StrVal(<<7>>), IntVal(42)}}

\* file::Value
FStr(start, len) ==
  [t |-> "String", start |-> start, len |-> len, value |-> 0]

FInt(v) == [t |-> "Integer", start |-> 0, len |-> 0, value |-> v]

\* bincode of a file::Value: the variant index, then the fields (a variant
\* index and a u64 take one byte here, an i128 two)
EncValue(fv) ==
  IF fv.t = "String" THEN <<0, fv.start, fv.len>> ELSE <<1, fv.value, 0>>

\* bincode::serialize(&Some(entry)): the byte of Some, the variant index of
\* the entry, its fields
Serialize(fe) ==
  IF fe.tag = "Set"
  THEN <<1, 0>> \o EncValue(fe.key) \o EncValue(fe.value)
  ELSE <<1, 1>> \o EncValue(fe.key)

DecValue(buf, i) ==
  IF buf[i] = 0 THEN FStr(buf[i + 1], buf[i + 2]) ELSE FInt(buf[i + 1])

\* Option<mem::Entry> / Option<file::Entry>
NoneEntry ==
  [some |-> FALSE,
   entry |-> [tag |-> "Remove", key |-> IntVal(0), value |-> IntVal(0)]]

\* bincode::deserialize::<Option<file::Entry>>(&buf)
Deserialize(buf) ==
  IF buf[1] = 0 THEN [kind |-> "ok", opt |-> NoneEntry]
  ELSE IF buf[1] # 1 \/ buf[2] \notin {0, 1} \/ buf[3] \notin {0, 1}
          \/ (buf[2] = 0 /\ buf[6] \notin {0, 1})
  THEN [kind |-> "BincodeError", opt |-> NoneEntry]
  ELSE [kind |-> "ok",
        opt  |-> [some  |-> TRUE,
                  entry |-> IF buf[2] = 0
                            THEN [tag |-> "Set", key |-> DecValue(buf, 3),
                                  value |-> DecValue(buf, 6)]
                            ELSE [tag |-> "Remove", key |-> DecValue(buf, 3),
                                  value |-> FInt(0)]]]

\* a LogWriter or LogReader: entry_pos and the positions of its two cursors
Cursors(isopen) == [open |-> isopen, pos |-> 0, ecur |-> 0, dcur |-> 0]

\* the result of a call: at is the position the call was made at or for
FmtRes(op, kind, opt, at) ==
  [op |-> op, kind |-> kind, opt |-> opt, at |-> at, enc |-> 0]

\* two buffers, the entry buffer holding n zero slots, and
\* LogWriter::new over them (which seeks to 0)
FmtStart(n) ==
  [efile  |-> [i \in 1..(n * SERIALIZED_ENTRY_SIZE) |-> 0],
   dfile  |-> <<>>,
   w      |-> Cursors(TRUE),
   r      |-> Cursors(FALSE),
   wrote  |-> <<>>,
   sought |-> FALSE,
   res    |-> FmtRes("new", "ok", NoneEntry, 0)]

\* a write_value that takes the position after it has written the string
write_value_after(F, v) ==
  IF v.t = "String"
  THEN [F  |-> [F EXCEPT !.dfile = WriteAt(@, F.w.dcur, v.s, 0),
                         !.w.dcur = @ + Len(v.s)],
        fv |-> FStr(F.w.dcur + Len(v.s), Len(v.s))]
  ELSE [F |-> F, fv |-> FInt(v.i)]

\* LogWriter::write_value
write_value(F, v) ==
  IF v.t = "String"
  THEN [F  |-> [F EXCEPT !.dfile = WriteAt(@, F.w.dcur, v.s, 0),
                         !.w.dcur = @ + Len(v.s)],
        fv |-> FStr(F.w.dcur, Len(v.s))]
  ELSE [F |-> F, fv |-> FInt(v.i)]

\* a write_file_entry that writes the serialized bytes as they are
write_file_entry_unpadded(F, fe) ==
  [F EXCEPT !.efile = WriteAt(@, F.w.ecur, Serialize(fe), 0),
            !.w.ecur = @ + Len(Serialize(fe)),
            !.w.pos = @ + 1,
            !.res = [FmtRes("write_entry", "ok", NoneEntry, F.w.pos)
                       EXCEPT !.enc = Len(Serialize(fe))]]

\* LogWriter::write_file_entry: serialize, resize to the slot size,
\* write_all at the cursor, entry_pos += 1; the old entry_pos is returned
write_file_entry(F, fe) ==
  [F EXCEPT !.efile = WriteAt(@, F.w.ecur,
                              [i \in 1..SERIALIZED_ENTRY_SIZE |->
                                 IF i <= Len(Serialize(fe))
                                 THEN Serialize(fe)[i] ELSE 0],
                              0),
            !.w.ecur = @ + SERIALIZED_ENTRY_SIZE,
            !.w.pos = @ + 1,
            !.res = [FmtRes("write_entry", "ok", NoneEntry, F.w.pos)
                       EXCEPT !.enc = Len(Serialize(fe))]]

\* LogWriter::write_entry
write_entry(F0, e) ==
  CHOOSE x \in UNION {
    { write_file_entry(v.F,
                       IF e.tag = "Set"
                       THEN [tag |-> "Set", key |-> k.fv, value |-> v.fv]
                       ELSE [tag |-> "Remove", key |-> k.fv,
                             value |-> FInt(0)])
      : v \in {IF e.tag = "Set" THEN write_value(k.F, e.value) ELSE k} }
    : k \in {write_value(F0, e.key)} } : TRUE

\* LogWriter::seek
writer_seek(F, p) ==
  [F EXCEPT !.w.ecur = p * SERIALIZED_ENTRY_SIZE,
            !.w.pos = p,
            !.sought = TRUE,
            !.res = FmtRes("seek", "ok", NoneEntry, p)]

\* what a reader call leaves: the reader and how the call ended
Left(r, kind) == [r |-> r, kind |-> kind, buf |-> <<>>, opt |-> NoneEntry]

\* LogReader::fill_buf: the assertion on the position, then the bytes from
\* the cursor to the end of the buffer, which have to be a whole slot
fill_buf(r, efile) ==
  IF r.ecur % SERIALIZED_ENTRY_SIZE # 0 THEN Left(r, "panic")
  ELSE IF Len(efile) - r.ecur < SERIALIZED_ENTRY_SIZE
  THEN Left(r, "BufferFillError")
  ELSE [Left(r, "ok") EXCEPT
          !.buf = SubSeq(efile, r.ecur + 1,
                         r.ecur + SERIALIZED_ENTRY_SIZE)]

\* a consume that moves the cursor and leaves entry_pos
consume_uncounted(r) ==
  IF r.pos >= (MAX_ENTRIES_PER_FILE - 1) THEN Left(r, "SeekError")
  ELSE Left([r EXCEPT !.ecur = @ + SERIALIZED_ENTRY_SIZE], "ok")

\* LogReader::consume
consume(r) ==
  IF r.pos >= (MAX_ENTRIES_PER_FILE - 1) THEN Left(r, "SeekError")
  ELSE Left([r EXCEPT !.ecur = @ + SERIALIZED_ENTRY_SIZE, !.pos = @ + 1],
            "ok")

\* LogReader::seek_prev
seek_prev(r) ==
  IF r.pos = 0 THEN Left(r, "SeekError")
  ELSE IF r.ecur < SERIALIZED_ENTRY_SIZE THEN Left(r, "IoError")
  ELSE CHOOSE x \in
         { IF r1.ecur % SERIALIZED_ENTRY_SIZE # 0 THEN Left(r1, "SeekError")
           ELSE Left(r1, "ok")
           : r1 \in {[r EXCEPT !.ecur = @ - SERIALIZED_ENTRY_SIZE,
                               !.pos = @ - 1]} } : TRUE

\* the loop of from_most_recent: consume while the slot at the cursor holds
\* an entry
RECURSIVE ScanForward(_, _)
ScanForward(r, efile) ==
  CHOOSE x \in UNION {
    { IF b.kind # "ok" THEN b
      ELSE IF d.kind # "ok" THEN Left(r, d.kind)
      ELSE IF ~d.opt.some THEN Left(r, "ok")
      ELSE IF consume(r).kind # "ok" THEN consume(r)
      ELSE ScanForward(consume(r).r, efile)
      : d \in {IF b.kind = "ok" THEN Deserialize(b.buf)
               ELSE [kind |-> "ok", opt |-> NoneEntry]} }
    : b \in {fill_buf(r, efile)} } : TRUE

\* LogReader::from_most_recent
from_most_recent(r, efile) ==
  CHOOSE x \in
    { IF s.kind # "ok" THEN s
      ELSE IF s.r.pos > 0 THEN seek_prev(s.r)
      ELSE s
      : s \in {ScanForward(r, efile)} } : TRUE

\* LogReader::last_entry
last_entry(r, efile) ==
  CHOOSE x \in UNION UNION {
    { { IF m.kind # "ok" THEN m
        ELSE IF b.kind # "ok" THEN b
        ELSE IF d.kind # "ok" THEN Left(m.r, d.kind)
        ELSE IF consume(m.r).kind # "ok" THEN consume(m.r)
        ELSE [consume(m.r) EXCEPT !.opt = d.opt]
        : d \in {IF b.kind = "ok" THEN Deserialize(b.buf)
                 ELSE [kind |-> "ok", opt |-> NoneEntry]} }
      : b \in {fill_buf(m.r, efile)} }
    : m \in {from_most_recent(r, efile)} } : TRUE

\* LogReader::lookup_value: seek the data cursor to start, read_exact len
lookup_value(r, dfile, fv) ==
  IF fv.t = "Integer" THEN [r |-> r, kind |-> "ok", v |-> IntVal(fv.value)]
  ELSE IF fv.start + fv.len > Len(dfile)
  THEN [r |-> [r EXCEPT !.dcur = Max(fv.start, Len(dfile))],
        kind |-> "IoError", v |-> IntVal(0)]
  ELSE [r |-> [r EXCEPT !.dcur = fv.start + fv.len], kind |-> "ok",
        v |-> StrVal(SubSeq(dfile, fv.start + 1, fv.start + fv.len))]

\* LogReader::lookup_entry
lookup_entry(r, dfile, fe) ==
  CHOOSE x \in UNION {
    { IF k.kind # "ok" THEN Left(k.r, k.kind)
      ELSE IF v.kind # "ok" THEN Left(v.r, v.kind)
      ELSE [Left(v.r, "ok") EXCEPT
              !.opt = [some  |-> TRUE,
                       entry |-> IF fe.tag = "Set"
                                 THEN [tag |-> "Set", key |-> k.v,
                                       value |-> v.v]
                                 ELSE [tag |-> "Remove", key |-> k.v,
                                       value |-> IntVal(0)]]]
      : v \in {IF k.kind = "ok" /\ fe.tag = "Set"
               THEN lookup_value(k.r, dfile, fe.value) ELSE k} }
    : k \in {lookup_value(r, dfile, fe.key)} } : TRUE

\* LogReader::entry_at(p): seek(p), which puts the log cursor at byte p * S,
\* then read_entry: None when less than a slot is left or the slot is
\* absent (without moving on); otherwise the slot is decoded, the reader
\* moves past it and the entry is resolved from the data buffer
entry_at(r0, efile, dfile, p) ==
  CHOOSE x \in UNION {
    { IF Len(efile) - r.ecur < SERIALIZED_ENTRY_SIZE THEN Left(r, "ok")
      ELSE IF d.kind # "ok" THEN Left(r, d.kind)
      ELSE IF ~d.opt.some THEN Left(r, "ok")
      ELSE lookup_entry(consume(r).r, dfile, d.opt.entry)
      : d \in {IF Len(efile) - r.ecur < SERIALIZED_ENTRY_SIZE
               THEN [kind |-> "ok", opt |-> NoneEntry]
               ELSE Deserialize(fill_buf(r, efile).buf)} }
    : r \in {[r0 EXCEPT !.ecur = p * SERIALIZED_ENTRY_SIZE, !.pos = p]} }
    : TRUE

(* ----------------------------- state machine --------------------------- *)
VARIABLES
  disk,         \* the directory: which files exist and what they hold
  off,          \* offset of the open handle of each file
  wbuf,         \* what each BufWriter holds
  entry_pos,    \* LogWriter.entry_pos of the writer over each log file
  index,        \* KvStore.index
  current_gen,  \* KvStore.current_gen
  alive,        \* a KvStore is open in the process
  res,          \* what the last call returned
  nwrites,      \* set/remove calls that reached the writer so far
  budget,       \* how many calls of each kind this behaviour may make
  hist,         \* history: what was written and what happened so far
  in_memory,    \* server KvStore.in_memory
  page_index,   \* server KvStore.index: the headers of the pages
  pages_dir,    \* the server's directory: the index file and the pages
  running,      \* the server process is in its accept loop
  backlog,      \* connections made and not yet accepted, oldest first
  nconn,        \* connections made so far
  served,       \* history: the connections the loop has taken, in order
  fmt,          \* the two buffers of a logformat test, its writer and reader
  slotted       \* the Slotted of a logformat test and what was pushed

\* the store and its history
kvars == <<disk, off, wbuf, entry_pos, index, current_gen, alive, res,
           nwrites, budget, hist>>

\* the server and its history
svars == <<in_memory, page_index, pages_dir, running, backlog, nconn, served>>

vars == <<disk, off, wbuf, entry_pos, index, current_gen, alive, res,
          nwrites, budget, hist,
          in_memory, page_index, pages_dir, running, backlog, nconn, served,
          fmt, slotted>>

\* the engine and the directory as one value
Cur ==
  [disk |-> disk, trace |-> <<>>, off |-> off, wbuf |-> wbuf,
   pos |-> entry_pos, index |-> index, cur |-> current_gen,
   ok |-> TRUE, err |-> "err", ret |-> 0]

\* the store takes the state s; the server is another process
Install(s) ==
  /\ UNCHANGED <<svars, <<fmt, slotted>>>>
  /\ disk' = s.disk
  /\ off' = s.off
  /\ wbuf' = s.wbuf
  /\ entry_pos' = s.pos
  /\ index' = s.index
  /\ current_gen' = s.cur

\* the process is gone: only the directory is left
Gone(d) ==
  /\ \E s \in {Fresh(d)} : Install(s)
  /\ alive' = FALSE

NoRes == [op |-> "none", key |-> <<>>, kind |-> "ok", val |-> <<>>]

\* push on the current generation will call compact_all
Triggers == entry_pos[LogF(current_gen)] > COMPACT_THRESHOLD

\* what get(k) would return now
GetRes(k) == get(Cur, k).res

\* what a fresh open of directory d followed by get(k) returns, for each k
Mapping(d) ==
  CHOOSE r \in
    { [k \in Keys |-> IF s.ok THEN get(s, k).res
                      ELSE ErrRes("open", <<>>, "err")]
      : s \in {open(d)} } : TRUE

\* what get(k) has to return when the latest writes are `latest`
Expected(latest) ==
  [k \in Keys |-> IF latest[k] = <<>> THEN NoneVal(k)
                  ELSE [op |-> "get", key |-> k, kind |-> "some",
                        val |-> latest[k]]]

\* the directory once every open writer has written out what it holds
RECURSIVE FlushAll(_, _)
FlushAll(st0, g) ==
  CHOOSE r \in
    { IF g > st.cur THEN st
      ELSE FlushAll(WriterFlush(st, LogF(g), DataF(g)), g + 1)
      : st \in {st0} } : TRUE

\* a behaviour is explored within one of these budgets
Budgets ==
  { [writes |-> MaxWrites,  gets |-> 0,       opens |-> MaxOpens,
     crash  |-> FALSE,      iofail |-> TRUE,  wfail |-> FALSE],
    [writes |-> MaxWrites,  gets |-> MaxGets, opens |-> 2,
     crash  |-> TRUE,       iofail |-> FALSE, wfail |-> FALSE],
    [writes |-> LongWrites, gets |-> 0,       opens |-> 1,
     crash  |-> FALSE,      iofail |-> FALSE, wfail |-> FALSE],
    [writes |-> MaxWrites,  gets |-> 0,       opens |-> 1,
     crash  |-> FALSE,      iofail |-> FALSE, wfail |-> TRUE] }

NoHist ==
  [latest    |-> [k \in Keys |-> <<>>],
   gets      |-> 0,
   compacted |-> 0,
   crashed   |-> FALSE,
   iofail    |-> FALSE,
   opens     |-> 1,
   fail      |-> [g \in Gens |-> "none"],
   pending   |-> [g \in Gens |-> <<>>],
   preClose  |-> [k \in Keys |-> NoneVal(k)],
   before    |-> [k \in Keys |-> NoneVal(k)],
   incompact |-> FALSE,
   want      |-> {},
   ran       |-> FALSE,
   left      |-> 0,
   gen0      |-> 0,
   lens      |-> [g \in Gens |-> 0]]

\* a Slotted just made, nothing pushed
SlottedStart ==
  [s |-> Slotted_new, pushed |-> <<>>,
   res |-> [op |-> "new", index |-> 0, opt |-> slotted_get(Slotted_new, 0)]]

\* no server process and nothing in its directory
ServerOff ==
  /\ in_memory = EmptyTable
  /\ page_index = <<>>
  /\ pages_dir = [index |-> [exists |-> FALSE, headers |-> <<>>], pages |-> <<>>]
  /\ running = FALSE
  /\ backlog = <<>>
  /\ nconn = 0
  /\ served = <<>>

\* a KvStore opened on an empty directory
Init ==
  /\ disk = open(EmptyDisk).disk
  /\ off = open(EmptyDisk).off
  /\ wbuf = open(EmptyDisk).wbuf
  /\ entry_pos = open(EmptyDisk).pos
  /\ index = open(EmptyDisk).index
  /\ current_gen = open(EmptyDisk).cur
  /\ alive = TRUE
  /\ res = NoRes
  /\ nwrites = 0
  /\ budget \in Budgets
  /\ hist = NoHist
  /\ ServerOff
  /\ fmt = [FmtStart(0) EXCEPT !.w = Cursors(FALSE)]
  /\ slotted = SlottedStart

\* the bookkeeping of a set or remove that reached the writer: ran says
\* whether the call went on into compact_all, left is the entry position
\* its append left, gen0 the generation it appended to, lens the number of
\* slots of each log when compact_all began
Wrote(k, v, s, e) ==
  CHOOSE h \in
    { [hist EXCEPT
         !.latest[k] = IF s.ok THEN v ELSE @,
         !.compacted = IF Triggers THEN @ + 1 ELSE @,
         !.before = IF Triggers THEN Mapping(FlushAll(p, 0).disk) ELSE @,
         !.ran = s.trace # p.trace,
         !.left = p.pos[LogF(current_gen)],
         !.gen0 = current_gen,
         !.lens = [g \in Gens |->
                     IF Triggers
                     THEN Len(FlushAll(p, 0).disk.content[LogF(g)])
                     ELSE 0]]
      : p \in {push_entry(Cur, current_gen, e)} } : TRUE

Set(k, v) ==
  /\ alive
  /\ ~hist.crashed
  /\ LogF(current_gen) \in disk.exists
  /\ nwrites < budget.writes
  /\ v = ValOf(nwrites)
  /\ \E s \in {set(Cur, k, v)} :
         /\ s.cur \in Gens
         /\ Install(s)
         /\ res' = IF s.ok THEN Ok("set", k) ELSE ErrRes("set", k, s.err)
         /\ hist' = Wrote(k, v, s, MemSet(k, v))
  /\ nwrites' = nwrites + 1
  /\ UNCHANGED <<alive, budget>>

Remove(k) ==
  /\ alive
  /\ ~hist.crashed
  /\ index[k].present => LogF(current_gen) \in disk.exists
  /\ index[k].present => nwrites < budget.writes
  /\ \E s \in {remove(Cur, k)} :
         /\ s.cur \in Gens
         /\ Install(s)
         /\ res' = IF s.ok THEN Ok("remove", k)
                   ELSE ErrRes("remove", k, s.err)
         /\ hist' = IF s.err = "NonExistentKey" THEN hist
                    ELSE Wrote(k, <<>>, s, MemRemove(k))
         /\ nwrites' = IF s.err = "NonExistentKey" THEN nwrites
                       ELSE IF nwrites + 1 <= budget.writes
                            THEN nwrites + 1 ELSE budget.writes
  /\ UNCHANGED <<alive, budget>>

Get(k) ==
  /\ alive
  /\ LogF(current_gen) \in disk.exists
  /\ hist.gets < budget.gets
  /\ \E r \in {get(Cur, k)} :
         /\ Install(r.st)
         /\ res' = r.res
  /\ hist' = [hist EXCEPT !.gets = @ + 1]
  /\ UNCHANGED <<alive, nwrites, budget>>

\* a set or remove whose write_entry meets an I/O error at the point `at`;
\* a behaviour has one failed I/O call
WriteFails(op, e, at) ==
  /\ alive
  /\ budget.wfail
  /\ ~hist.iofail
  /\ nwrites < budget.writes
  /\ CanFail(Cur, LogF(current_gen), DataF(current_gen), e, at)
  /\ \E s \in {push_failing(Cur, current_gen, e, at)} : Install(s)
  /\ res' = ErrRes(op, e.key, "IoError")
  /\ hist' = [hist EXCEPT !.iofail = TRUE]
  /\ UNCHANGED <<alive, nwrites, budget>>

\* the KvStore is dropped; fail says how each writer's flush goes
Close(fail) ==
  /\ alive
  /\ \A g \in Gens : fail[g] # "none" => budget.iofail /\ g <= current_gen
  /\ \E d \in {drop(Cur, fail, 0).disk} : Gone(d)
  /\ res' = [NoRes EXCEPT !.op = "close"]
  /\ hist' = [hist EXCEPT !.fail = fail,
                          !.iofail = @ \/ \E g \in Gens : fail[g] # "none",
                          !.pending = [g \in Gens |-> wbuf[LogF(g)]],
                          !.preClose = [k \in Keys |-> GetRes(k)]]
  /\ UNCHANGED <<nwrites, budget>>

\* KvStore::open on the directory as it is.  open writes nothing into a
\* directory that holds the files of every generation, so a crash inside
\* open leaves the directory as it found it.
Open ==
  /\ ~alive
  /\ hist.opens < budget.opens
  /\ \E s \in {open(disk)} :
         IF s.ok
         THEN /\ Install(s)
              /\ alive' = TRUE
              /\ res' = Ok("open", <<>>)
         ELSE /\ Gone(s.disk)
              /\ res' = ErrRes("open", <<>>, "err")
  /\ hist' = [hist EXCEPT !.opens = @ + 1]
  /\ UNCHANGED <<nwrites, budget>>

\* the process dies and leaves directory d; a behaviour has one crash and
\* makes no set or remove after it: the store is reopened and read
Dies(d, incompact, want) ==
  /\ alive
  /\ budget.crash
  /\ ~hist.crashed
  /\ Gone(d)
  /\ res' = [NoRes EXCEPT !.op = "crash"]
  /\ hist' = [hist EXCEPT !.crashed = TRUE, !.incompact = incompact,
                          !.want = want]
  /\ UNCHANGED <<nwrites, budget>>

\* the process dies inside a push, after any one of its writes to the disk;
\* a crash after compact_all has begun remembers what the directory held
\* when it began (before and after compact wrote out the writer's buffers)
DiesInPush(s, e) ==
  \E p \in {push_entry(Cur, current_gen, e)} :
    \E i \in 1..Len(s.trace) :
      LET in == Triggers /\ i > Len(p.trace)
      IN  Dies(s.trace[i], in,
               IF in THEN {Mapping(p.disk), Mapping(FlushAll(p, 0).disk)}
               ELSE {})

CrashInSet(k, v) ==
  /\ nwrites < budget.writes
  /\ v = ValOf(nwrites)
  /\ DiesInPush(set(Cur, k, v), MemSet(k, v))

CrashInRemove(k) ==
  /\ index[k].present
  /\ nwrites < budget.writes
  /\ DiesInPush(remove(Cur, k), MemRemove(k))

CrashInGet(k) ==
  /\ hist.gets < budget.gets
  /\ \E i \in 1..Len(get(Cur, k).st.trace) :
       Dies(get(Cur, k).st.trace[i], FALSE, {})

Next ==
  \/ \E k \in Keys, v \in Vals : Set(k, v)
  \/ \E k \in Keys : Remove(k)
  \/ \E k \in Keys : Get(k)
  \/ \E k \in Keys, at \in {"key", "value", "log"} :
        WriteFails("set", MemSet(k, ValOf(nwrites)), at)
  \/ \E k \in Keys, at \in {"key", "value", "log"} :
        index[k].present /\ WriteFails("remove", MemRemove(k), at)
  \/ \E fail \in [Gens -> {"none", "data", "log"}] : Close(fail)
  \/ Open
  \/ (Dies(disk, FALSE, {}))
  \/ \E k \in Keys, v \in Vals : CrashInSet(k, v)
  \/ \E k \in Keys : CrashInRemove(k)
  \/ \E k \in Keys : CrashInGet(k)
  \/ \E i \in 1..Len(drop(Cur, [g \in Gens |-> "none"], 0).trace) :
        Dies(drop(Cur, [g \in Gens |-> "none"], 0).trace[i], FALSE, {})

Spec == Init /\ [][Next]_vars

(* ------------- the store over a log that ends in zero slots ------------- *)
\* the newest generation of the directory d
Newest(d) ==
  IF Generations(d) = {} THEN 0
  ELSE CHOOSE x \in Generations(d) : \A y \in Generations(d) : y <= x

\* while no process has the store open, the log of the newest generation is
\* extended by m zero slots (space allocated to the file and never written)
Pad(m) ==
  /\ ~alive
  /\ hist.opens < budget.opens
  /\ LogF(Newest(disk)) \in disk.exists
  /\ Present(disk.content[LogF(Newest(disk))], 0)
       = Len(disk.content[LogF(Newest(disk))])
  /\ disk' = [disk EXCEPT !.content[LogF(Newest(disk))] =
                              @ \o [i \in 1..m |-> ZeroSlot]]
  /\ res' = [NoRes EXCEPT !.op = "pad"]
  /\ UNCHANGED <<off, wbuf, entry_pos, index, current_gen, alive, nwrites,
                 budget, hist>>
  /\ UNCHANGED <<svars, <<fmt, slotted>>>>

ReplayNext ==
  \/ \E k \in Keys, v \in Vals : Set(k, v)
  \/ \E k \in Keys : Remove(k)
  \/ \E fail \in [Gens -> {"none", "data", "log"}] : Close(fail)
  \/ Open
  \/ \E m \in 1..MaxPad : Pad(m)

\* the store opened on an empty directory, to be closed, padded and reopened
ReplayInit == Init /\ budget.opens = MaxOpens

ReplaySpec == ReplayInit /\ [][ReplayNext]_vars

(* ------------- the store when opening the next generation fails -------- *)
\* a set or remove whose push runs compact_all, and the open_log_file of the
\* next generation fails there: the call returns the I/O error
OpenLogFails(op, e) ==
  /\ alive
  /\ budget.wfail
  /\ ~hist.iofail
  /\ nwrites < budget.writes
  /\ \E s \in {compact_all_failing(push_entry(Cur, current_gen, e))} :
         /\ push_entry(Cur, current_gen, e).ret > COMPACT_THRESHOLD
         /\ ~s.ok
         /\ s.cur \in Gens
         /\ Install(s)
  /\ res' = ErrRes(op, e.key, "IoError")
  /\ hist' = [hist EXCEPT !.iofail = TRUE]
  /\ UNCHANGED <<alive, nwrites, budget>>

\* a set, remove or get when no writer of current_gen exists: the expect in
\* push or flush panics, and the unwinding drops the KvStore
Panics(op, k) ==
  /\ alive
  /\ LogF(current_gen) \notin disk.exists
  /\ op = "remove" => index[k].present
  /\ \E d \in {drop([Cur EXCEPT !.cur = @ - 1],
                     [g \in Gens |-> "none"], 0).disk} : Gone(d)
  /\ res' = ErrRes(op, k, "panic")
  /\ UNCHANGED <<nwrites, budget, hist>>

FaultNext ==
  \/ Next
  \/ \E k \in Keys : OpenLogFails("set", MemSet(k, ValOf(nwrites)))
  \/ \E k \in Keys :
        index[k].present /\ OpenLogFails("remove", MemRemove(k))
  \/ \E op \in {"set", "remove", "get"}, k \in Keys : Panics(op, k)

FaultSpec == Init /\ [][FaultNext]_vars

(* ------------------------ reading the store's state -------------------- *)
\* only set, remove, close and open were called, and no flush has failed
Quiet == alive /\ hist.gets = 0 /\ ~hist.crashed /\ ~hist.iofail

\* the last call was a set or remove that went on into compact_all
JustCompacted ==
  alive /\ res.op \in {"set", "remove"} /\ res.kind = "ok" /\ hist.ran

\* the key of the record in slot i - 1 of generation g's log, resolved from
\* the data file as lookup_value does
RecordKey(d, g, i) ==
  LET r == d.content[LogF(g)][i]
      c == d.content[DataF(g)]
  IN IF r.key.start + r.key.len <= Len(c)
     THEN SubSeq(c, r.key.start + 1, r.key.start + r.key.len) ELSE <<>>

\* the records with key k that a replay of directory d reads, as pairs of
\* generation and slot
Records(d, k) ==
  UNION { { <<g, i>> : i \in { j \in 1..Present(d.content[LogF(g)], 0) :
                                 RecordKey(d, g, j) = k } }
          : g \in {h \in Gens : LogF(h) \in d.exists} }

Resolves(d, g, i) ==
  LET r == d.content[LogF(g)][i]
  IN /\ r.key.start + r.key.len <= Len(d.content[DataF(g)])
     /\ r.tag = "Set" =>
           r.value.start + r.value.len <= Len(d.content[DataF(g)])

\* the most recent record with key k is a Set
LatestIsSet(d, k) ==
  \E a \in Records(d, k) :
     /\ d.content[LogF(a[1])][a[2]].tag = "Set"
     /\ \A b \in Records(d, k) : ~(a[1] < b[1] \/ (a[1] = b[1] /\ a[2] < b[2]))

\* the record the index entry of k points at decodes to a Set of k
PointsAtSet(st, k) ==
  LET x == EntryAt(st, LogF(st.index[k].gen), DataF(st.index[k].gen),
                   st.index[k].location)
  IN x.ok /\ x.some /\ x.entry.tag = "Set" /\ x.entry.key = k

\* write_entry(e) on the current generation returns the entry position it
\* found, leaves it one higher, and the record is in that slot of the log
\* once the writer is flushed
Lands(e) ==
  LET w == WriteEntry(Cur, LogF(current_gen), DataF(current_gen), e)
      d == FlushAll(w.st, 0).disk
  IN /\ w.pos = entry_pos[LogF(current_gen)]
     /\ w.st.pos[LogF(current_gen)] = w.pos + 1
     /\ Len(d.content[LogF(current_gen)]) > w.pos
     /\ d.content[LogF(current_gen)][w.pos + 1].tag = e.tag
     /\ RecordKey(d, current_gen, w.pos + 1) = e.key

(* ------------------------ state machine of the server ------------------ *)
\* the server's KvStore as one value
Srv == [mem |-> in_memory, index |-> page_index, disk |-> pages_dir]

SrvInstall(e) ==
  /\ in_memory' = e.mem
  /\ page_index' = e.index
  /\ pages_dir' = e.disk

\* no store process: the store's variables stay as they are here
StoreOff ==
  /\ disk = EmptyDisk
  /\ off = Fresh(EmptyDisk).off
  /\ wbuf = Fresh(EmptyDisk).wbuf
  /\ entry_pos = Fresh(EmptyDisk).pos
  /\ index = Fresh(EmptyDisk).index
  /\ current_gen = 0
  /\ alive = FALSE
  /\ res = NoRes
  /\ nwrites = 0
  /\ budget = [writes |-> 0, gets |-> 0, opens |-> 0,
               crash |-> FALSE, iofail |-> FALSE, wfail |-> FALSE]
  /\ hist = NoHist

\* main has opened the KvStore on an empty directory and listens
ServerInit ==
  /\ StoreOff
  /\ fmt = [FmtStart(0) EXCEPT !.w = Cursors(FALSE)]
  /\ slotted = SlottedStart
  /\ pages_dir = [index |-> [exists |-> FALSE, headers |-> <<>>],
                  pages |-> <<>>]
  /\ in_memory = open_with_logger(pages_dir).mem
  /\ page_index = open_with_logger(pages_dir).index
  /\ running = TRUE
  /\ backlog = <<>>
  /\ nconn = 0
  /\ served = <<>>

\* a client connects and sends its request; the connection waits in the
\* listener's queue
Connect(req) ==
  /\ running
  /\ nconn < MaxConns
  /\ Len(backlog) < MaxBacklog
  /\ backlog' = Append(backlog, [id |-> nconn + 1, req |-> req])
  /\ nconn' = nconn + 1
  /\ UNCHANGED <<in_memory, page_index, pages_dir, running, served>>
  /\ UNCHANGED <<kvars, <<fmt, slotted>>>>

\* listener.incoming() yields the connections in the order they were made
NextConn_newest(q) == Len(q)

NextConn(q) == 1

\* one turn of the accept loop: peer says whether peer_addr succeeds and io
\* how the engine's reads fail.  A response that cannot be written is only
\* logged, which changes nothing here.  The history keeps what the turn
\* did: the fault when it changed the outcome, and whether the store held
\* no value for the key when the request was applied.
Handle(peer, io) ==
  /\ running
  /\ backlog # <<>>
  /\ \E n \in {NextConn(backlog)} : \E c \in {backlog[n]} :
       /\ backlog' = SubSeq(backlog, 1, n - 1)
                        \o SubSeq(backlog, n + 1, Len(backlog))
       /\ IF ~peer \/ c.req.tag = "Bad"
          THEN /\ io = "none"
               /\ served' = Append(served,
                               [id |-> c.id, req |-> c.req, peer |-> peer,
                                applied |-> FALSE, out |-> [kind |-> "none", v |-> ""],
                                resp |-> [tag |-> "none", text |-> <<>>],
                                io |-> io, absent |-> FALSE])
               /\ UNCHANGED <<in_memory, page_index, pages_dir>>
          ELSE \E r \in {Apply(Srv, c.req, io)} :
                 /\ SrvInstall(r.e)
                 /\ served' = Append(served,
                                 [id |-> c.id, req |-> c.req, peer |-> peer,
                                  applied |-> TRUE, out |-> r.out,
                                  resp |-> Respond(c.req, r.out),
                                  io |-> IF r = Apply(Srv, c.req, "none")
                                         THEN "none" ELSE io,
                                  absent |-> kv_get(Srv, c.req.key, "none")
                                               .kind = "none"])
  /\ UNCHANGED <<running, nconn>>
  /\ UNCHANGED <<kvars, <<fmt, slotted>>>>

\* the process ends in exit (ctrl-c, or a failed accept): nothing is
\* dropped, the table in memory and the waiting connections are gone
Exit ==
  /\ running
  /\ running' = FALSE
  /\ in_memory' = EmptyTable
  /\ page_index' = <<>>
  /\ backlog' = <<>>
  /\ UNCHANGED <<pages_dir, nconn, served>>
  /\ UNCHANGED <<kvars, <<fmt, slotted>>>>

\* main starts again on the same directory
Start ==
  /\ ~running
  /\ SrvInstall(open_with_logger(pages_dir))
  /\ running' = TRUE
  /\ UNCHANGED <<backlog, nconn, served>>
  /\ UNCHANGED <<kvars, <<fmt, slotted>>>>

ServerNext ==
  \/ \E req \in Requests : Connect(req)
  \/ \E peer \in BOOLEAN, io \in {"none", "page", "data"} : Handle(peer, io)
  \/ Exit
  \/ Start

ServerSpec == ServerInit /\ [][ServerNext]_vars

(* ---------------------- state machine of the log format ---------------- *)
\* no store and no server: a test of the crate over two buffers
FormatInit ==
  /\ StoreOff
  /\ ServerOff
  /\ fmt \in {FmtStart(n) : n \in 0..MaxPrealloc}
  /\ slotted = SlottedStart

\* writer.write_entry(&e)
FmtWrite(e) ==
  /\ fmt.w.open
  /\ Len(fmt.wrote) < MaxEntries
  /\ fmt' = [write_entry(fmt, e) EXCEPT !.wrote = Append(@, e)]
  /\ UNCHANGED <<kvars, svars, slotted>>

\* writer.seek(p)
FmtSeek(p) ==
  /\ fmt.w.open
  /\ ~fmt.sought
  /\ fmt' = writer_seek(fmt, p)
  /\ UNCHANGED <<kvars, svars, slotted>>

\* writer.flush(): Cursor::flush does nothing
FmtFlush ==
  /\ fmt.w.open
  /\ fmt.res.op # "flush"
  /\ fmt' = [fmt EXCEPT !.res = FmtRes("flush", "ok", NoneEntry, fmt.w.pos)]
  /\ UNCHANGED <<kvars, svars, slotted>>

\* drop(writer); LogReader::new over the two buffers, both cursors at 0
FmtOpenReader ==
  /\ fmt.w.open
  /\ fmt' = [fmt EXCEPT
       !.w = Cursors(FALSE),
       !.r = IF from_most_recent(Cursors(TRUE), fmt.efile).kind = "ok"
             THEN from_most_recent(Cursors(TRUE), fmt.efile).r
             ELSE Cursors(FALSE),
       !.res = FmtRes("reader",
                      from_most_recent(Cursors(TRUE), fmt.efile).kind,
                      NoneEntry, 0)]
  /\ UNCHANGED <<kvars, svars, slotted>>

\* reader.last_entry()
FmtLastEntry ==
  /\ fmt.r.open
  /\ \E x \in {last_entry(fmt.r, fmt.efile)} :
        fmt' = [fmt EXCEPT !.r = x.r,
                           !.res = FmtRes("last_entry", x.kind, x.opt,
                                          fmt.r.pos)]
  /\ UNCHANGED <<kvars, svars, slotted>>

\* reader.entry_at(p)
FmtEntryAt(p) ==
  /\ fmt.r.open
  /\ \E x \in {entry_at(fmt.r, fmt.efile, fmt.dfile, p)} :
        fmt' = [fmt EXCEPT !.r = x.r,
                           !.res = FmtRes("entry_at", x.kind, x.opt, p)]
  /\ UNCHANGED <<kvars, svars, slotted>>

FormatNext ==
  \/ \E e \in FmtEntries : FmtWrite(e)
  \/ \E p \in {0, MAX_ENTRIES_PER_FILE} : FmtSeek(p)
  \/ FmtFlush
  \/ FmtOpenReader
  \/ FmtLastEntry
  \/ \E p \in 0..(MaxEntries + 1) : FmtEntryAt(p)

FormatSpec == FormatInit /\ [][FormatNext]_vars

(* ----------------------- state machine of the Slotted ------------------ *)
\* no store, no server and no log: a test of Slotted alone
SlottedInit ==
  /\ StoreOff
  /\ ServerOff
  /\ fmt = [FmtStart(0) EXCEPT !.w = Cursors(FALSE)]
  /\ slotted = SlottedStart

\* data.push(bytes); the history keeps the bytes of every push
SlottedPush(bytes) ==
  /\ Len(slotted.pushed) < MaxPushes
  /\ slotted' = [s      |-> slotted_push(slotted.s, bytes).s,
                 pushed |-> Append(slotted.pushed, bytes),
                 res    |-> [op |-> "push",
                             index |-> slotted_push(slotted.s, bytes).ret,
                             opt |-> slotted_get(Slotted_new, 0)]]
  /\ UNCHANGED <<kvars, svars, fmt>>

\* data.get(i)
SlottedGet(i) ==
  /\ slotted' = [slotted EXCEPT
       !.res = [op |-> "get", index |-> i, opt |-> slotted_get(slotted.s, i)]]
  /\ UNCHANGED <<kvars, svars, fmt>>

\* the values are the byte strings 1 2 3 .. and 2 3 4 .. of every length
SlottedNext ==
  \/ \E n \in 0..MaxValueLen, b \in {0, 1} :
        SlottedPush([j \in 1..n |-> b + j])
  \/ \E i \in 0..MaxPushes : SlottedGet(i)

SlottedSpec == SlottedInit /\ [][SlottedNext]_vars

(* ------------------------------- claims ------------------------------- *)
\* C1: in a sequence of set, remove and get on one open store in which no
\* compaction has run, get(k) returns the value of the latest set of k, and
\* None when k was never set or was removed since.
C1_GetReturnsLatest ==
  (alive /\ hist.opens = 1 /\ hist.compacted = 0)
    => \A k \in Keys : GetRes(k) = Expected(hist.latest)[k]

\* C2: remove(k) for a key that is not in the index returns the
\* key-not-found error and writes nothing (the directory, the writers'
\* buffers and positions and the index are as before); and once a remove(k)
\* has succeeded, get(k) returns None and another remove(k) returns
\* key-not-found.
C2_RemoveAbsent ==
  /\ [][\A k \in Keys :
          (~index[k].present /\ Remove(k))
            => /\ res' = ErrRes("remove", k, "NonExistentKey")
               /\ disk' = disk /\ wbuf' = wbuf /\ off' = off
               /\ entry_pos' = entry_pos /\ index' = index]_vars
  /\ [](res = Ok("remove", res.key)
          => /\ GetRes(res.key) = NoneVal(res.key)
             /\ remove(Cur, res.key).err = "NonExistentKey"
             /\ ~remove(Cur, res.key).ok)

\* a second remove of a key that was set and removed returned key-not-found
C2_Witness ==
  /\ res.op = "remove" /\ res.kind = "NonExistentKey"
  /\ \E g \in Gens : \E i \in 1..Len(wbuf[LogF(g)]) :
        /\ wbuf[LogF(g)][i].tag = "Remove"
        /\ wbuf[DataF(g)] = res.key

\* C3: when only set and remove calls were made on a store opened on an
\* empty directory, none of them ran a compaction, and the store was closed
\* without an I/O failure, a fresh open of the directory answers get(k), for
\* every key k, as the store would have answered it just before the close.
C3_ReopenSameAnswers ==
  (/\ res = Ok("open", <<>>) /\ hist.opens = 2 /\ hist.gets = 0
   /\ hist.compacted = 0 /\ ~hist.crashed /\ ~hist.iofail)
    => \A k \in Keys : GetRes(k) = hist.preClose[k]

\* a reopened store that answers one key with a value and the other, which
\* was set and removed before the close, with None
C3_Witness ==
  /\ res = Ok("open", <<>>) /\ hist.opens = 2 /\ hist.gets = 0
  /\ hist.compacted = 0 /\ ~hist.crashed /\ ~hist.iofail
  /\ \E k \in Keys : GetRes(k).kind = "some"
  /\ \E k \in Keys :
        /\ GetRes(k).kind = "none"
        /\ \E i \in 1..Len(disk.content[LogF(0)]) :
              disk.content[LogF(0)][i].tag = "Remove"

\* the number of records a replay of the current generation's log reads
Replayed == Present(disk.content[LogF(current_gen)], 0)

\* appending e to the current generation puts it in the slot after the
\* replayed records and leaves those as they were
KeepsReplayed(e) ==
  LET c == FlushAll(push_entry(Cur, current_gen, e), 0)
             .disk.content[LogF(current_gen)]
  IN /\ Len(c) = Replayed + 1
     /\ c[Replayed + 1].tag = e.tag
     /\ SubSeq(c, 1, Replayed) = disk.content[LogF(current_gen)]

C5_CompactionKeepsAnswers ==
  (JustCompacted /\ Quiet) =>
     \A k \in Keys : GetRes(k) = Expected(hist.latest)[k]

\* C6: when the process dies inside compact_all, whether while the temporary
\* pair is written, between the two renames or after them, a fresh open of
\* the directory recovers the mapping that a replay of the directory gave
\* when compact_all began.
C6_CrashInCompactionRecovers ==
  (~alive /\ hist.crashed /\ hist.incompact) => Mapping(disk) \in hist.want

\* C7: wherever the process dies, every present record of every log file in
\* the directory refers to bytes that are in the data file of its generation.
C7_NoDanglingReference ==
  (~alive /\ hist.crashed) =>
     \A g \in Gens :
        LogF(g) \in disk.exists =>
           \A i \in 1..Present(disk.content[LogF(g)], 0) : Resolves(disk, g, i)

\* the process died and left a log with a record whose bytes are the last
\* of the data file
C7_Witness ==
  /\ ~alive /\ hist.crashed
  /\ \E g \in Gens :
        /\ LogF(g) \in disk.exists
        /\ \E i \in 1..Present(disk.content[LogF(g)], 0) :
              /\ disk.content[LogF(g)][i].tag = "Set"
              /\ disk.content[LogF(g)][i].value.start + 1
                   = Len(disk.content[DataF(g)])

\* C8: after a set or remove that ran compact_all (in a session of sets and
\* removes only), a replay of the directory yields the mapping that a replay
\* gave when compact_all began.
C8_CompactionKeepsMapping ==
  (JustCompacted /\ Quiet) => Mapping(FlushAll(Cur, 0).disk) = hist.before

\* C9: get(k) returns an error whenever k is in the index and the record at
\* the indexed generation and position is not a Set with key k.
C9_GetErrsOnMismatch ==
  alive =>
    \A k \in Keys :
       (index[k].present
          /\ ~PointsAtSet(WriterFlush(Cur, LogF(current_gen),
                                      DataF(current_gen)), k))
         => GetRes(k).kind = "err"

\* C10: after the engine is dropped, every record that was waiting in the
\* writer of a generation whose flush did not fail is in that generation's
\* log on disk and the bytes it refers to are in the data file, whether or
\* not the flush of another writer failed.
C10_DropFlushesEveryWriter ==
  (res.op = "close") =>
     \A g \in Gens :
        (hist.fail[g] = "none" /\ LogF(g) \in disk.exists) =>
           \A j \in 1..Len(hist.pending[g]) :
              \E i \in 1..Len(disk.content[LogF(g)]) :
                 /\ disk.content[LogF(g)][i] = hist.pending[g][j]
                 /\ Resolves(disk, g, i)

\* the engine was dropped, the flush of one writer failed and another
\* writer held a record
C10_Witness ==
  /\ res.op = "close"
  /\ \E g \in Gens : hist.fail[g] # "none"
  /\ \E g \in Gens : hist.fail[g] = "none" /\ hist.pending[g] # <<>>

\* C21: a set or remove whose write_entry fails with an I/O error leaves the
\* writer's entry position and the engine's index as they were, and the next
\* write_entry is given that same position and its record lands in that
\* slot.
C21_FailedWriteKeepsPosition ==
  /\ [][(res'.kind = "IoError" /\ res'.op \in {"set", "remove"})
          => (entry_pos' = entry_pos /\ index' = index)]_vars
  /\ [](res.kind = "IoError"
          => \A k \in Keys : /\ Lands(MemSet(k, ValOf(nwrites)))
                             /\ Lands(MemRemove(k)))

\* a set failed in write_all of its slot, on a generation that holds
\* records, with a key in the index
C21_Witness ==
  /\ res.kind = "IoError" /\ res.op = "set"
  /\ entry_pos[LogF(current_gen)] > BUF_SLOTS
  /\ wbuf[LogF(current_gen)] # <<>>
  /\ \E k \in Keys : index[k].present

\* C22: a write_entry made at an entry position that has reached
\* MAX_ENTRIES_PER_FILE returns FileOutOfSpaceError and leaves the log as it
\* was.
C22_WriteAtCapIsError ==
  [][(fmt'.res.op = "write_entry" /\ fmt.w.open
        /\ fmt.w.pos >= MAX_ENTRIES_PER_FILE /\ fmt'.wrote # fmt.wrote)
       => (fmt'.res.kind = "FileOutOfSpaceError"
             /\ fmt'.efile = fmt.efile)]_vars

C24_ReadsBackWhatWasWritten ==
  (fmt.res.op = "entry_at" /\ ~fmt.sought) =>
      /\ fmt.res.kind = "ok"
      /\ fmt.res.opt = IF fmt.res.at < Len(fmt.wrote)
                       THEN [some  |-> TRUE,
                             entry |-> fmt.wrote[fmt.res.at + 1]]
                       ELSE NoneEntry

C24_Witness ==
  /\ fmt.res.op = "entry_at"
  /\ ~fmt.sought
  /\ Len(fmt.wrote) = 2
  /\ fmt.res.at = 1
  /\ fmt.res.opt.some
  /\ fmt.res.opt.entry.tag = "Set"
  /\ fmt.res.opt.entry.key.t = "String"
  /\ fmt.res.opt.entry.value.t = "String"
  /\ fmt.wrote[1].key.t = "String"

\* C25: when open has replayed a log whose first N slots are written and
\* whose other slots are zero, the index is the one the first N records
\* give, the writer's entry position is N, and the next record is appended
\* in slot N.
C25_ReplayStopsAtZeroSlot ==
  (/\ res = Ok("open", <<>>)
   /\ Replayed < Len(disk.content[LogF(current_gen)])
   /\ \A i \in (Replayed + 1)..Len(disk.content[LogF(current_gen)]) :
         disk.content[LogF(current_gen)][i] = ZeroSlot) =>
        /\ index = open([disk EXCEPT !.content[LogF(current_gen)] =
                                          SubSeq(@, 1, Replayed)]).index
        /\ entry_pos[LogF(current_gen)] = Replayed
        /\ \A k \in Keys : Lands(MemSet(k, ValOf(nwrites)))

\* the byte string a is the beginning of the byte string b
\* C26: between the calls on a LogReader (construction, last_entry and the
\* scans, consume and seek_prev inside them, entry_at) its log cursor stands
\* at entry_pos * S, a multiple of S, and no call ends in the failed
\* assertion of fill_buf.
C26_ReaderStaysAligned ==
  /\ fmt.res.kind # "panic"
  /\ fmt.r.open =>
        /\ fmt.r.ecur % SERIALIZED_ENTRY_SIZE = 0
        /\ fmt.r.ecur = fmt.r.pos * SERIALIZED_ENTRY_SIZE

C26_Witness ==
  /\ fmt.r.open
  /\ fmt.res.op = "last_entry"
  /\ fmt.res.kind = "ok"
  /\ fmt.res.opt.some
  /\ fmt.r.pos = 2

\* the i-th slot of a log buffer
SlotOf(efile, i) ==
  SubSeq(efile, i * SERIALIZED_ENTRY_SIZE + 1, (i + 1) * SERIALIZED_ENTRY_SIZE)

\* C27: every entry is encoded in at most S bytes and written as exactly S,
\* the encoding followed by zeros, so the log is a whole number of slots in
\* every state and each of its slots is empty or decodes as one record.
C27_WholeSlots ==
  /\ \A e \in FmtEntries :
        write_entry(fmt, e).res.enc <= SERIALIZED_ENTRY_SIZE
  /\ Len(fmt.efile) % SERIALIZED_ENTRY_SIZE = 0
  /\ \A i \in 0..((Len(fmt.efile) \div SERIALIZED_ENTRY_SIZE) - 1) :
        /\ Deserialize(SlotOf(fmt.efile, i)).kind = "ok"
        /\ ~Deserialize(SlotOf(fmt.efile, i)).opt.some
              => SlotOf(fmt.efile, i) = [j \in 1..SERIALIZED_ENTRY_SIZE |-> 0]
  /\ fmt.res.op = "write_entry" =>
        /\ fmt.res.enc <= SERIALIZED_ENTRY_SIZE
        /\ fmt.w.ecur = (fmt.res.at + 1) * SERIALIZED_ENTRY_SIZE
        /\ Deserialize(SlotOf(fmt.efile, fmt.res.at)).opt.some
        /\ \A j \in (fmt.res.enc + 1)..SERIALIZED_ENTRY_SIZE :
              SlotOf(fmt.efile, fmt.res.at)[j] = 0

C27_Witness ==
  /\ fmt.res.op = "write_entry"
  /\ Len(fmt.wrote) = MaxEntries
  /\ fmt.res.enc < SERIALIZED_ENTRY_SIZE
  /\ Len(fmt.efile) = MaxEntries * SERIALIZED_ENTRY_SIZE

\* C28: the data file of a generation only grows at its end: a step that
\* does not replace the file by a compacted one leaves every byte that was
\* in it as it was, and every reference of a present log record lies within
\* the data file (here: as long as no I/O call has failed).
C28_DataFileAppendOnly ==
  /\ [][(hist'.compacted = hist.compacted /\ ~hist'.incompact
           /\ ~hist'.iofail)
          => \A g \in Gens :
                DataF(g) \in disk.exists
                  => /\ Len(disk.content[DataF(g)])
                           <= Len(disk'.content[DataF(g)])
                     /\ SubSeq(disk'.content[DataF(g)], 1,
                               Len(disk.content[DataF(g)]))
                           = disk.content[DataF(g)]]_vars
  /\ [](~hist.iofail
          => \A g \in Gens :
                LogF(g) \in disk.exists
                  => \A i \in 1..Present(disk.content[LogF(g)], 0) :
                        Resolves(disk, g, i))

\* the directory d without the <G>-temp and <G>-temp.data files
NoTempDisk(d) ==
  [exists  |-> {f \in d.exists : f[1] \in {"log", "data"}},
   content |-> [f \in Files |-> IF f[1] \in {"log", "data"}
                                THEN d.content[f] ELSE <<>>]]

\* pushing e leaves the generations as it leaves them when the directory
\* holds no temp file
IgnoresLeftover(e) ==
  LET a == push(Cur, current_gen, e)
      b == push([Cur EXCEPT !.disk = NoTempDisk(disk)], current_gen, e)
  IN (a.ok /\ b.ok) =>
        \A g \in 0..a.cur :
           a.disk.content[LogF(g)] = b.disk.content[LogF(g)]

\* C29: open replays no record of a leftover <G>-temp pair (the mapping it
\* recovers is that of the directory without the pair), and a set or remove
\* that compacts leaves in the log <G> the records it leaves when no
\* leftover exists.
C29_LeftoverTempIsHarmless ==
  /\ ~alive => Mapping(disk) = Mapping(NoTempDisk(disk))
  /\ (alive /\ current_gen \in Gens) =>
        \A k \in Keys :
           /\ IgnoresLeftover(MemSet(k, ValOf(nwrites)))
           /\ index[k].present => IgnoresLeftover(MemRemove(k))

\* C30: after a set or remove that ran compact_all, the log of every
\* generation it compacted has at most as many slots as it had when
\* compact_all began.
C30_CompactionNeverGrows ==
  JustCompacted =>
     \A g \in 0..hist.gen0 :
        Len(disk.content[LogF(g)]) <= hist.lens[g]

\* compact_all ran for the second time and compacted two generations, each
\* of which still holds a record
C30_Witness ==
  /\ JustCompacted
  /\ hist.gen0 = 1
  /\ hist.compacted = 2
  /\ \A g \in 0..1 : Len(disk.content[LogF(g)]) > 0

\* C31: after open and after every set or remove that returned Ok, the
\* generations with a log file on disk are exactly 0..current_gen; open
\* takes the largest generation on disk as current_gen (0 if there is none)
\* and creates empty files for a generation below it that is missing.
C31_GenerationsFormPrefix ==
  /\ (alive /\ res.kind = "ok" /\ res.op \in {"open", "set", "remove"}
        /\ current_gen \in Gens)
       => Generations(disk) = 0..current_gen
  /\ (alive /\ res.op = "open" /\ res.kind = "ok")
       => current_gen = Newest(disk)
  /\ (~alive /\ open(disk).ok) =>
       \A g \in Generations(disk) \ {Newest(disk)} :
          LET gap == [disk EXCEPT !.exists = @ \ {LogF(g), DataF(g)},
                                  !.content[LogF(g)] = <<>>,
                                  !.content[DataF(g)] = <<>>]
          IN /\ open(gap).ok
             /\ open(gap).cur = Newest(disk)
             /\ Generations(open(gap).disk) = 0..Newest(disk)
             /\ {LogF(g), DataF(g)} \subseteq open(gap).disk.exists
             /\ open(gap).disk.content[LogF(g)] = <<>>

C31_Witness ==
  /\ alive
  /\ res = Ok("open", <<>>)
  /\ current_gen = 1
  /\ hist.crashed
  /\ Generations(disk) = {0, 1}

\* C32: a set, remove or get that does not run a compaction leaves the log
\* and data files of every generation below current_gen, and what their
\* writers hold, as they were: new records go to generation current_gen.
C32_WritesGoToCurrentGen ==
  [][(alive /\ alive' /\ res'.op \in {"set", "remove", "get"}
        /\ hist'.compacted = hist.compacted)
       => \A g \in 0..(current_gen - 1) :
             /\ disk'.content[LogF(g)] = disk.content[LogF(g)]
             /\ disk'.content[DataF(g)] = disk.content[DataF(g)]
             /\ wbuf'[LogF(g)] = wbuf[LogF(g)]
             /\ wbuf'[DataF(g)] = wbuf[DataF(g)]]_vars

C32_Witness ==
  /\ alive
  /\ current_gen = 1
  /\ res.op = "set"
  /\ res.kind = "ok"
  /\ hist.gen0 = 1
  /\ ~hist.ran
  /\ Len(FlushAll(Cur, 0).disk.content[LogF(1)]) >= 2

\* C33: after an open, set or remove that returned Ok, the entry position of
\* the writer of every generation 0..current_gen equals the number of
\* records in that generation's log (its writer's buffer written out).
C33_WriterPosIsLogLength ==
  (alive /\ res.kind = "ok" /\ res.op \in {"open", "set", "remove"}
     /\ Quiet) =>
     \A g \in 0..current_gen :
        entry_pos[LogF(g)] = Len(FlushAll(Cur, 0).disk.content[LogF(g)])

\* C34: while a KvStore is open, every index entry names a generation up to
\* current_gen and the files of every generation 0..current_gen exist, as
\* they do once open_log_file has made the generation's reader and writer;
\* no call ends in the panic of a missing reader or writer.
C34_HandlesForEveryGeneration ==
  /\ res.kind # "panic"
  /\ alive =>
       /\ \A k \in Keys : index[k].present => index[k].gen <= current_gen
       /\ \A g \in 0..current_gen :
             {LogF(g), DataF(g)} \subseteq disk.exists

\* C35: compact(G) leaves the files of every other generation, the offsets,
\* buffers and entry positions of their handles, current_gen and the set of
\* keys in the index as they were.
C35_CompactTouchesOnlyItsGeneration ==
  alive =>
    \A g \in 0..current_gen :
       LET c == compact(Cur, g)
       IN /\ c.ok
          /\ c.cur = current_gen
          /\ {k \in Keys : c.index[k].present}
               = {k \in Keys : index[k].present}
          /\ \A h \in Gens \ {g} :
                \A f \in {LogF(h), DataF(h), TLogF(h), TDataF(h)} :
                   /\ (f \in c.disk.exists) = (f \in disk.exists)
                   /\ c.disk.content[f] = disk.content[f]
                   /\ c.off[f] = off[f]
                   /\ c.wbuf[f] = wbuf[f]
                   /\ c.pos[f] = entry_pos[f]

C35_Witness ==
  /\ alive
  /\ current_gen = 1
  /\ entry_pos[LogF(1)] = 2
  /\ wbuf[LogF(1)] # <<>>
  /\ Len(compact(Cur, 0).disk.content[LogF(0)]) < Len(disk.content[LogF(0)])
  /\ compact(Cur, 1).disk.content[LogF(1)] # disk.content[LogF(1)]

\* C39: compact(G) returns the number of records in the rewritten log of G.
\* It is stated for the compact calls of a set that runs compact_all.
C39_CompactReturnsNewLength ==
  (alive /\ Triggers /\ Quiet) =>
    \A k \in Keys, g \in 0..current_gen :
       LET c == compact(push_entry(Cur, current_gen,
                                   MemSet(k, ValOf(nwrites))), g)
       IN c.ok => c.ret = Len(c.disk.content[LogF(g)])

\* C36: every set or remove of the server's KvStore that returned Ok is
\* durable: when the store is dropped (Drop runs save) and opened again on
\* the same directory, the index file lists every page that was written and
\* get answers for every key what it answered before the drop.  This holds
\* also after the push that filled the table to COMMANDS_PER_PAGE entries.
C36_OkWritesAreDurable ==
  running =>
    LET d == save(Srv).disk
        r == open_with_logger(d)
    IN /\ Len(r.index) = Len(d.pages)
       /\ \A k \in SrvKeys : kv_get(r, k, "none") = kv_get(Srv, k, "none")

\* C37: distinct keys of the server's KvStore never alias: a set or remove
\* of one key leaves what get answers for every other key as it was, also
\* for two keys with the same 64-bit hash, in memory and in the pages.
C37_DistinctKeysDoNotAlias ==
  [][(running /\ running' /\ Len(served') = Len(served) + 1
        /\ served'[Len(served')].applied
        /\ served'[Len(served')].req.tag = "Set")
       => \A k2 \in SrvKeys \ {served'[Len(served')].req.key} :
            kv_get([mem |-> in_memory', index |-> page_index',
                    disk |-> pages_dir'], k2, "none")
              = kv_get(Srv, k2, "none")]_vars

\* C38: after any sequence of Slotted::push calls, get(i) returns exactly
\* the bytes of the i-th push, also when the heap has grown beyond the
\* largest u16 or one value is longer than that.
C38_SlottedGetReturnsPushed ==
  \A i \in 1..Len(slotted.pushed) :
     /\ slotted_get(slotted.s, i - 1).some
     /\ slotted_get(slotted.s, i - 1).bytes = slotted.pushed[i]

\* C11: the server answers a successful set or remove with Message(""), a
\* get that found a value with Message(value), an engine KeyNotFound error
\* with the KeyNotFound response, and every other engine error with
\* Message("Error: " followed by the error's description).
C11_ResponseMapping ==
  \A i \in 1..Len(served) :
    served[i].applied =>
      /\ served[i].out.kind = "unit" => served[i].resp = Message(<<>>)
      /\ served[i].out.kind = "some"
           => served[i].resp = Message(<<served[i].out.v>>)
      /\ served[i].out.kind = "KeyNotFound"
           => served[i].resp = [tag |-> "KeyNotFound", text |-> <<>>]
      /\ served[i].out.kind = "Message"
           => /\ served[i].resp.tag = "Message"
              /\ Head(served[i].resp.text) = "Error: "
              /\ Tail(served[i].resp.text) = Display(served[i].out)

\* the server has answered a successful set, a remove of an absent key and
\* a request on which the engine failed to read a page
C11_Witness ==
  /\ \E i \in 1..Len(served) : served[i].out.kind = "unit"
  /\ \E i \in 1..Len(served) : served[i].out.kind = "KeyNotFound"
  /\ \E i \in 1..Len(served) :
       served[i].out.kind = "Message" /\ served[i].req.tag = "Get"

\* C12: a Get request for a key the store holds no value for is answered
\* with the KeyNotFound response, not with a Message.
C12_GetAbsentIsKeyNotFound ==
  \A i \in 1..Len(served) :
    (served[i].applied /\ served[i].req.tag = "Get"
       /\ served[i].out.kind = "none")
      => served[i].resp = [tag |-> "KeyNotFound", text |-> <<>>]

\* C13: the connections are taken one at a time in the order they were
\* made; every connection taken whose peer is there and whose request
\* decodes has had exactly one engine call applied and one response written
\* before the next one is taken, and every other connection none.
C13_OneAtATimeInOrder ==
  /\ [](\A i \in 1..Len(served) :
          /\ \A j \in 1..Len(served) : i < j => served[i].id < served[j].id
          /\ (served[i].peer /\ served[i].req.tag # "Bad")
               <=> served[i].applied
          /\ served[i].applied <=> served[i].resp # [tag |-> "none", text |-> <<>>])
  /\ [][\A peer \in BOOLEAN, io \in {"none", "page", "data"} :
          Handle(peer, io)
            => /\ Len(served') = Len(served) + 1
               /\ SubSeq(served', 1, Len(served)) = served
               /\ served'[Len(served')].id = Head(backlog).id
               /\ served'[Len(served')].applied
                    => Srv' = Apply(Srv, served'[Len(served')].req,
                                    served'[Len(served')].io).e
               /\ ~served'[Len(served')].applied => Srv' = Srv]_vars
  /\ [][Srv' # Srv
          => \/ Len(served') = Len(served) + 1
             \/ running' # running]_vars

\* three connections were taken and the request of each was applied
C13_Witness ==
  /\ Len(served) = 3
  /\ \A i \in 1..3 : served[i].applied
  /\ served[1].req.tag = "Set" /\ served[3].req.tag = "Get"

\* C14: remove answers KeyNotFound only when the store holds no value for
\* the key; when the lookup that precedes the removal fails, remove returns
\* that error.
C14_RemoveKeyNotFoundOnlyIfAbsent ==
  \A i \in 1..Len(served) :
    (served[i].applied /\ served[i].req.tag = "Set"
       /\ ~served[i].req.value.some)
      => /\ served[i].out.kind = "KeyNotFound" => served[i].absent
         /\ served[i].io # "none" => served[i].out.kind = "Message"

\* C15: in every state each index entry k -> (G, P) points at slot P of the
\* log of generation G and the record in that slot decodes to a Set of k,
\* also after a compaction (here: in behaviours without get, crash or
\* failed flush).
C15_IndexPointsAtSet ==
  Quiet => \A k \in Keys :
             index[k].present => PointsAtSet(FlushAll(Cur, 0), k)

\* C16: in every state a key is in the index if and only if the most recent
\* record for it, by generation and then position, is a Set (here: in
\* behaviours without get, crash or failed flush).
C16_IndexIffLatestIsSet ==
  Quiet => \A k \in Keys :
             index[k].present <=> LatestIsSet(FlushAll(Cur, 0).disk, k)

\* C17: after compact(G) the new log of G holds exactly one record for
\* every key whose index entry pointed into G.
C17_OneRecordPerLiveKey ==
  (JustCompacted /\ Quiet) =>
     \A g \in 0..hist.gen0 : \A k \in Keys :
        (index[k].present /\ index[k].gen = g)
          => Cardinality({a \in Records(disk, k) : a[1] = g}) = 1

\* C18: write_entry returns the entry position p it found, stores the
\* record in slot p of the log and leaves the entry position p + 1, also
\* after recovery has called set_pos and after the reader has read the file.
C18_WriteEntryLandsAtPos ==
  (alive /\ current_gen \in Gens) =>
     \A k \in Keys : Lands(MemSet(k, ValOf(nwrites))) /\ Lands(MemRemove(k))

\* C19: a set or remove calls compact_all exactly when its append leaves the
\* entry position of the generation greater than COMPACT_THRESHOLD.
C19_CompactsIffAboveThreshold ==
  (alive /\ res.op \in {"set", "remove"} /\ res.kind = "ok")
    => (hist.ran <=> hist.left > COMPACT_THRESHOLD)

\* C20: compact_all advances current_gen exactly when the generation that
\* was current still holds more than COMPACT_THRESHOLD records after it was
\* compacted.
C20_AdvancesOnlyIfStillFull ==
  JustCompacted
    => (current_gen # hist.gen0
          <=> Present(disk.content[LogF(hist.gen0)], 0) > COMPACT_THRESHOLD)

====
